---- MODULE Spec2Model ----
(***************************************************************************)
(* A model of the KFX book orchestrator (kfxlib/yj_book.py), its container *)
(* dispatch and the zip-wrapped container codec                            *)
(* (kfxlib/unpack_container.py).                                           *)
(*                                                                         *)
(* Several specifications share the module:                                *)
(*   SpecDispatch  one call of get_container from one of its two call      *)
(*                 sites (decode_book, get_metadata) on an arbitrary data  *)
(*                 file;                                                   *)
(*   Spec          a YJ_Book instance and the operations called on it;     *)
(*   SpecZip       ZipUnpackContainer.serialize followed by deserialize;   *)
(*   SpecLog       the thread-local logger (kfxlib/message_logging.py);    *)
(*   SpecPlugin    the output plugin's conversion job;                     *)
(*   SpecData      DataFile.get_data and comparison (kfxlib/utilities.py); *)
(*   SpecSer       Serializer and Deserializer (kfxlib/utilities.py);      *)
(*   SpecProc      one conversion process and its result                   *)
(*                 (kfxlib/generate_kpf_common.py);                        *)
(*   SpecRetry     the retry loop (kfxlib/generate_kpf_using_cli.py);      *)
(*   SpecConsole   a WindowsConsole (kfxlib/windows_console.py).           *)
(***************************************************************************)
EXTENDS Integers, Sequences, FiniteSets, TLC

VARIABLES
    \* ---- SpecDispatch: one classification at a call site
    cls_datafile,       \* the DataFile handed to get_container
    cls_caller,         \* "decode_book" or "get_metadata"
    cls_result,         \* outcome of get_container, or Pending
    cls_deserialized,   \* the call site went on to container.deserialize()
    \* ---- Spec: one YJ_Book instance
    disk,               \* the main input and the files around it
    fragments,          \* self.fragments
    yj_containers,      \* self.yj_containers
    container_datafiles,\* self.container_datafiles (names)
    is_kpf_prepub,      \* self.is_kpf_prepub
    calls,              \* number of operations called so far
    decode_returned,    \* a decode_book call has returned normally
    last_op,            \* the last operation called on the instance
    last_exc,           \* the exception it left with, "" when it returned
    last_ev,            \* what it did, in order
    last_fail,          \* the file whose deserialize raised in it, 0 if none
    prev,               \* the fields of the instance before it
    \* ---- SpecZip: one ZipUnpackContainer round trip
    zc_phase,           \* "built", "serialized" or "deserialized"
    zc_fragments,       \* the fragment list handed to serialize
    zc_archive,         \* the zip archive serialize wrote (its infolist)
    zc_out,             \* the fragment list deserialize built from it
    \* ---- SpecLog: the logger registration of message_logging.py
    lg_attr,            \* thread_local_cfg.logger of every thread
    lg_registered,      \* the logger every thread has registered, if any
    lg_obs,             \* the last call: its thread, what it was, its result
    \* ---- SpecPlugin: one run of KFXOutput.convert_from_kpf_or_zip
    pl_in,              \* the arguments and the surroundings of the run
    pl_phase,           \* "called" or "done"
    pl_log,             \* the JobLog: its errors and warnings
    pl_raised,          \* the exception the run left with, "" when it returned
    pl_written,         \* file_write_binary(output, kfx_data) was called
    pl_logger,          \* the logger registered for the thread of the run
    \* ---- SpecData: one DataFile (kfxlib/utilities.py) and its backing store
    df_file,            \* the DataFile: name, kind of source, self.data, parent
    df_store,           \* what the file or stream holds now
    df_other,           \* a second DataFile, to compare with
    df_reads,           \* times the file or stream was read
    df_rets,            \* what the get_data calls returned, in order
    df_cmp,             \* the results of the last comparison of the two
    \* ---- SpecSer: a Serializer and a Deserializer over what it wrote
    sr_buffers,         \* self.buffers
    sr_length,          \* self.length
    sr_written,         \* what was written, in order: formats and values
    sr_handles,         \* the fmt_pos pairs the pack calls returned
    sr_ops,             \* number of Serializer operations called
    sr_exc,             \* the exception the last operation left with
    sr_read,            \* what the Deserializer read back, or NotRead
    \* ---- SpecProc: one ConversionProcess (kfxlib/generate_kpf_common.py)
    pr_env,             \* the surroundings: launch, psutil, timeout, the process
    pr_phase,           \* "created", "ran" (run() is over) or "read"
    pr_cli,             \* the fields of the ConversionProcess, and how run() ended
    pr_once,            \* the locals of perform_conversion_sequence_once at its return
    \* ---- SpecRetry: one KPR_CLI.perform_conversion_sequence
    rt_envs,            \* what the attempts would meet, one after the other
    rt_phase,           \* "called" or "done"
    rt_made,            \* attempts begun (calls of perform_conversion_sequence_once)
    rt_result,          \* the result returned, NoResult when none was
    rt_raised,          \* the exception the call left with, "" when it returned
    \* ---- SpecConsole: one WindowsConsole (kfxlib/windows_console.py)
    wc_self,            \* the fields of the object
    wc_os,              \* the console: its active buffer, the alternate buffer
    wc_closed,          \* CloseHandle calls on the alternate handle
    wc_freed,           \* FreeConsole calls
    wc_calls,           \* calls made on the object
    wc_at_free          \* the fields and the console when free_... first returned

clsVars == <<cls_datafile, cls_caller, cls_result, cls_deserialized>>

bookVars == <<disk, fragments, yj_containers, container_datafiles,
              is_kpf_prepub, calls, decode_returned, last_op, last_exc, last_ev,
              last_fail, prev>>

zipVars == <<zc_phase, zc_fragments, zc_archive, zc_out>>

logVars == <<lg_attr, lg_registered, lg_obs>>

plugVars == <<pl_in, pl_phase, pl_log, pl_raised, pl_written, pl_logger>>

dataVars == <<df_file, df_store, df_other, df_reads, df_rets, df_cmp>>

serVars == <<sr_buffers, sr_length, sr_written, sr_handles, sr_ops, sr_exc, sr_read>>

procVars == <<pr_env, pr_phase, pr_cli, pr_once>>

\* the variables of the specifications of the utilities
retryVars == <<rt_envs, rt_phase, rt_made, rt_result, rt_raised>>

consoleVars == <<wc_self, wc_os, wc_closed, wc_freed, wc_calls, wc_at_free>>

extVars == <<dataVars, serVars, procVars, retryVars, consoleVars>>

\* the variables of the specifications of the book and of the plugin
coreVars == <<clsVars, bookVars, zipVars, logVars, plugVars>>

\* what the actions of one specification of the utilities leave alone
notDataVars == <<coreVars, serVars, procVars, retryVars, consoleVars>>
notSerVars == <<coreVars, dataVars, procVars, retryVars, consoleVars>>
notProcVars == <<coreVars, dataVars, serVars, retryVars, consoleVars>>
notRetryVars == <<coreVars, dataVars, serVars, procVars, consoleVars>>
notConsoleVars == <<coreVars, dataVars, serVars, procVars, retryVars>>

vars == <<clsVars, bookVars, zipVars, logVars, plugVars, extVars>>

----------------------------------------------------------------------------
(* Small helpers on sequences.                                             *)

Range(s) == {s[i] : i \in DOMAIN s}

SeqsUpTo(S, n) == UNION {[1..k -> S] : k \in 0..n}

----------------------------------------------------------------------------
(* Data files as get_container sees them.                                  *)
(*                                                                         *)
(* The bytes of a file are abstracted to what the dispatch reads: `head`   *)
(* is the file's first 8 bytes (one token per signature, the signatures    *)
(* being distinct byte strings at offset 0 none of which is a prefix of    *)
(* another, plus two tokens for bytes that match no signature), `mobi`     *)
(* says whether bytes 0x3c..0x43 are "BOOKMOBI", and `entries` is the      *)
(* infolist of the archive when the file is a zip archive.  An entry name  *)
(* is a directory prefix and a base name.                                  *)

MaxEntries == 2

ZIP_SIGNATURE == "PK"
KDF_SIGNATURE == "SQLite"
SIGNATURE     == "CONT"
DRM_SIGNATURE == "DRMION"

Heads == {ZIP_SIGNATURE, KDF_SIGNATURE, SIGNATURE, DRM_SIGNATURE, "x1", "x2"}

Exts == {".ion", ".kfx", ".zip"}

EntryDirs  == {"", "sub/"}
EntryBases == {"book.ion", "book.kdf", "res.bin"}
EntryNames == [dir : EntryDirs, base : EntryBases]

Datas ==
    [head : {ZIP_SIGNATURE}, mobi : BOOLEAN, entries : SeqsUpTo(EntryNames, MaxEntries)]
    \cup [head : Heads \ {ZIP_SIGNATURE}, mobi : BOOLEAN, entries : {<<>>}]

DataFiles == [ext : Exts, data : Datas]

startswith(data, sig) == data.head = sig

\* posixpath.basename(info.filename)
basename(info) == info.base

\* info.filename.endswith(".kdf")
endswith_kdf(info) == info.base = "book.kdf"

IsMarker(info) == basename(info) \in {"book.ion", "book.kdf"}

----------------------------------------------------------------------------
(* YJ_Book.get_container                                                   *)

Outcome(tag, head) == [tag |-> tag, head |-> head]

ContainerTags ==
    {"IonTextContainer", "KpfContainer", "ZipUnpackContainer", "KfxContainer"}

ErrorTags == {"KFXDRMError", "MobiError", "UnableToDetermine"}

\* the loop over zf.infolist(): the first entry whose base name is a book
\* marker decides; "" when the loop ends without a marker
RECURSIVE ZipMarkerScan(_)
ZipMarkerScan(infolist) ==
    IF infolist = <<>> THEN ""
    ELSE IF IsMarker(Head(infolist))
         THEN (IF endswith_kdf(Head(infolist)) THEN "KpfContainer"
                                               ELSE "ZipUnpackContainer")
         ELSE ZipMarkerScan(Tail(infolist))

\* Faulty variant of SignatureDispatch: the DRM test is missing, a DRM file
\* falls through to the tests that follow it.
SignatureDispatch_NoDrmTest(data, ignore_drm) ==
    IF startswith(data, KDF_SIGNATURE) THEN Outcome("KpfContainer", "")
    ELSE IF startswith(data, SIGNATURE) THEN Outcome("KfxContainer", "")
    ELSE IF data.mobi THEN Outcome("MobiError", "")
    ELSE Outcome("UnableToDetermine", data.head)

\* the signature tests that follow the zip test
SignatureDispatch(data, ignore_drm) ==
    IF startswith(data, KDF_SIGNATURE) THEN Outcome("KpfContainer", "")
    ELSE IF startswith(data, SIGNATURE) THEN Outcome("KfxContainer", "")
    ELSE IF startswith(data, DRM_SIGNATURE)
         THEN (IF ignore_drm THEN Outcome("None", "")
                             ELSE Outcome("KFXDRMError", ""))
    ELSE IF data.mobi THEN Outcome("MobiError", "")
    ELSE Outcome("UnableToDetermine", data.head)

\* Faulty variant of get_container: the zip test is made before the
\* extension test.
get_container_ZipFirst(datafile, ignore_drm) ==
    IF startswith(datafile.data, ZIP_SIGNATURE)
       /\ ZipMarkerScan(datafile.data.entries) # ""
    THEN Outcome(ZipMarkerScan(datafile.data.entries), "")
    ELSE IF datafile.ext = ".ion" THEN Outcome("IonTextContainer", "")
    ELSE SignatureDispatch(datafile.data, ignore_drm)

get_container(datafile, ignore_drm) ==
    IF datafile.ext = ".ion" THEN Outcome("IonTextContainer", "")
    ELSE IF startswith(datafile.data, ZIP_SIGNATURE)
            /\ ZipMarkerScan(datafile.data.entries) # ""
         THEN Outcome(ZipMarkerScan(datafile.data.entries), "")
    ELSE SignatureDispatch(datafile.data, ignore_drm)

----------------------------------------------------------------------------
(* Values the variables of a specification keep while another one runs.    *)

NoFile == [ext |-> "", data |-> [head |-> "x1", mobi |-> FALSE, entries |-> <<>>],
           frags |-> <<>>]

NoBook ==
    [fragments |-> <<>>, yj_containers |-> <<>>, container_datafiles |-> <<>>,
     is_kpf_prepub |-> FALSE, decode_returned |-> FALSE]

BookIdle ==
    /\ disk = [form |-> "idle", files |-> <<>>, walk |-> <<>>]
    /\ fragments = <<>>
    /\ yj_containers = <<>>
    /\ container_datafiles = <<>>
    /\ is_kpf_prepub = FALSE
    /\ calls = 0
    /\ decode_returned = FALSE
    /\ last_op = ""
    /\ last_exc = ""
    /\ last_ev = <<>>
    /\ last_fail = 0
    /\ prev = NoBook

DispatchIdle ==
    /\ cls_datafile = [ext |-> "", data |-> NoFile.data]
    /\ cls_caller = ""
    /\ cls_result = Outcome("idle", "")
    /\ cls_deserialized = FALSE

ZipIdle ==
    /\ zc_phase = "idle"
    /\ zc_fragments = <<>>
    /\ zc_archive = <<>>
    /\ zc_out = <<>>

NumThreads == 2

Threads == 1..NumThreads

LogCall(t, op, result) == [t |-> t, op |-> op, result |-> result]

LogIdle ==
    /\ lg_attr = [t \in Threads |-> "unset"]
    /\ lg_registered = [t \in Threads |-> "none"]
    /\ lg_obs = LogCall(0, "", "")

JobLog(errors, warnings) == [errors |-> errors, warnings |-> warnings]

PluginIdle ==
    /\ pl_in = [cli |-> FALSE, from_kpf |-> FALSE, cde_type_pdoc |-> FALSE,
                asin |-> "", catalog |-> "absent", lib_errors |-> FALSE]
    /\ pl_phase = "idle"
    /\ pl_log = JobLog(<<>>, <<>>)
    /\ pl_raised = ""
    /\ pl_written = FALSE
    /\ pl_logger = "unset"

DataFile(name, kind, data, parent) ==
    [name |-> name, kind |-> kind, data |-> data, parent |-> parent]

NoCompare ==
    [done |-> FALSE, eq |-> FALSE, lt |-> FALSE, le |-> FALSE, gt |-> FALSE, ge |-> FALSE]

DataIdle ==
    /\ df_file = DataFile(0, "idle", "None", "None")
    /\ df_store = "missing"
    /\ df_other = DataFile(0, "idle", "None", "None")
    /\ df_reads = 0
    /\ df_rets = <<>>
    /\ df_cmp = NoCompare

Read(out, offset, exc) == [out |-> out, offset |-> offset, exc |-> exc]

NotRead == Read(<<>>, 0, "not read")

SerIdle ==
    /\ sr_buffers = <<>>
    /\ sr_length = 0
    /\ sr_written = <<>>
    /\ sr_handles = <<>>
    /\ sr_ops = 0
    /\ sr_exc = ""
    /\ sr_read = NotRead

\* no exit of the process in the time the model looks at
Never == 0 - 1

ProcEnv(launch, psutil, timeout_sec, exit_at, rc, summary, convlog) ==
    [launch |-> launch, psutil |-> psutil, timeout_sec |-> timeout_sec,
     exit_at |-> exit_at, rc |-> rc, summary |-> summary, convlog |-> convlog]

\* ConversionProcess.__init__: out_file, error_msg, returncode and
\* process_failure are None; `timeout` is the local of wait_for_completion,
\* `proc` the state of the external process, `exc` the exception run() left
\* with
NewProcess ==
    [process_failure |-> "None", returncode |-> <<>>, error_msg |-> "None",
     out_file |-> "None", proc |-> "none", timeout |-> FALSE, exc |-> "",
     waiting |-> FALSE]

Locals(kpf_data, error_msg, allow_retry) ==
    [kpf_data |-> kpf_data, error_msg |-> error_msg, allow_retry |-> allow_retry]

ProcIdle ==
    /\ pr_env = ProcEnv(FALSE, FALSE, 0, Never, 0, "missing", "clean")
    /\ pr_phase = "idle"
    /\ pr_cli = NewProcess
    /\ pr_once = Locals("None", "None", FALSE)

NoResult == Locals("None", "None", FALSE)

RetryIdle ==
    /\ rt_envs = <<>>
    /\ rt_phase = "idle"
    /\ rt_made = 0
    /\ rt_result = NoResult
    /\ rt_raised = ""

\* the fields of a WindowsConsole; of csbi the model keeps the cursor
\* position in the alternate buffer
Console(original, current, alternate, csbi, allocated_console) ==
    [original_console_output_handle |-> original,
     current_console_output_handle |-> current,
     alternate_console_output_handle |-> alternate,
     csbi |-> csbi, allocated_console |-> allocated_console]

\* the console of the process: which screen buffer is active, whether the
\* alternate buffer exists, where its cursor is
ConsoleOs(active, alt_open, cursor) ==
    [active |-> active, alt_open |-> alt_open, cursor |-> cursor]

\* self.csbi was never assigned; self.csbi is None
CsbiUnset == 0 - 2
CsbiNone == 0 - 1

NoConsole == Console("None", "None", "None", CsbiUnset, FALSE)

NotFreed ==
    [freed |-> FALSE, self |-> NoConsole, os |-> ConsoleOs("original", FALSE, 0),
     closed |-> 0, cfreed |-> 0]

ConsoleIdle ==
    /\ wc_self = NoConsole
    /\ wc_os = ConsoleOs("original", FALSE, 0)
    /\ wc_closed = 0
    /\ wc_freed = 0
    /\ wc_calls = 0
    /\ wc_at_free = NotFreed

ExtIdle ==
    /\ DataIdle
    /\ SerIdle
    /\ ProcIdle
    /\ RetryIdle
    /\ ConsoleIdle

CoreIdle ==
    /\ BookIdle
    /\ DispatchIdle
    /\ ZipIdle
    /\ LogIdle
    /\ PluginIdle

----------------------------------------------------------------------------
(* SpecDispatch: the two call sites of get_container.                      *)

Pending == Outcome("pending", "")

\* decode_book calls get_container(datafile); get_metadata calls
\* get_container(datafile, ignore_drm=True)
IgnoreDrmOf(caller) == caller = "get_metadata"

InitDispatch ==
    /\ BookIdle
    /\ ZipIdle
    /\ LogIdle
    /\ PluginIdle
    /\ ExtIdle
    /\ cls_datafile \in DataFiles
    /\ cls_caller \in {"decode_book", "get_metadata"}
    /\ cls_result = Pending
    /\ cls_deserialized = FALSE

\* container = self.get_container(datafile [, ignore_drm=True]); the call
\* site deserializes the container it got (get_metadata skips a None)
ClassifyAtCallSite ==
    /\ cls_result = Pending
    /\ cls_result' = get_container(cls_datafile, IgnoreDrmOf(cls_caller))
    /\ cls_deserialized' = (cls_result'.tag \in ContainerTags)
    /\ UNCHANGED <<cls_datafile, cls_caller>>
    /\ UNCHANGED <<bookVars, zipVars, logVars, plugVars, extVars>>

NextDispatch == ClassifyAtCallSite

SpecDispatch == InitDispatch /\ [][NextDispatch]_vars

----------------------------------------------------------------------------
(* Claims about the container dispatch (checked under SpecDispatch).       *)

Classified == cls_result # Pending

HasZipSignature == startswith(cls_datafile.data, ZIP_SIGNATURE)

HasPackageMarker ==
    \E i \in DOMAIN cls_datafile.data.entries :
        basename(cls_datafile.data.entries[i]) = "book.kdf"

HasIonMarker ==
    \E i \in DOMAIN cls_datafile.data.entries :
        basename(cls_datafile.data.entries[i]) = "book.ion"

\* C2: every data file that starts with the zip signature and whose archive
\* holds a book.kdf entry is classified as package-form (KpfContainer),
\* whatever other entries the archive holds and in whatever order.  (Stated
\* for files whose extension is not .ion, which the extension rule takes
\* first; the claim fails already there.)
C2_PackageMarkerWins ==
    (Classified /\ cls_datafile.ext # ".ion"
        /\ HasZipSignature /\ HasPackageMarker)
    => cls_result.tag = "KpfContainer"

HasDrmSignature == startswith(cls_datafile.data, DRM_SIGNATURE)

\* C3 (as claimed): a data file that starts with the DRM signature always
\* ends get_container with KFXDRMError, and no container is constructed or
\* deserialized for it, whatever its extension and the caller's options.
C3_DrmAlwaysError ==
    (Classified /\ HasDrmSignature)
    => /\ cls_result.tag = "KFXDRMError"
       /\ ~cls_deserialized

\* C3 (amended): for a data file whose extension is not .ion and that starts
\* with the DRM signature, no container is constructed or deserialized;
\* get_container raises KFXDRMError when called without ignore_drm
\* (decode_book) and returns None when called with ignore_drm=True
\* (get_metadata).
C3_DrmNeverDecoded ==
    (Classified /\ HasDrmSignature /\ cls_datafile.ext # ".ion")
    => /\ cls_result.tag \notin ContainerTags
       /\ ~cls_deserialized
       /\ cls_caller = "decode_book" => cls_result.tag = "KFXDRMError"
       /\ cls_caller = "get_metadata" => cls_result.tag = "None"

C3_Witness ==
    /\ Classified /\ HasDrmSignature /\ cls_datafile.ext # ".ion"
    /\ cls_caller = "get_metadata"
    /\ cls_result.tag = "None"

\* The six rules of the classification, in their order of precedence.
RuleMatches(i, df) ==
    CASE i = 1 -> df.ext = ".ion"
      [] i = 2 -> /\ df.data.head = ZIP_SIGNATURE
                  /\ \E k \in DOMAIN df.data.entries : IsMarker(df.data.entries[k])
      [] i = 3 -> df.data.head = KDF_SIGNATURE
      [] i = 4 -> df.data.head = SIGNATURE
      [] i = 5 -> df.data.head = DRM_SIGNATURE
      [] i = 6 -> df.data.mobi

FirstMarkerEntry(df) ==
    df.data.entries[CHOOSE k \in DOMAIN df.data.entries :
        /\ IsMarker(df.data.entries[k])
        /\ \A j \in 1..(k-1) : ~IsMarker(df.data.entries[j])]

RuleOutcome(i, df) ==
    CASE i = 1 -> Outcome("IonTextContainer", "")
      [] i = 2 -> IF FirstMarkerEntry(df).base = "book.kdf"
                  THEN Outcome("KpfContainer", "")
                  ELSE Outcome("ZipUnpackContainer", "")
      [] i = 3 -> Outcome("KpfContainer", "")
      [] i = 4 -> Outcome("KfxContainer", "")
      [] i = 5 -> Outcome("KFXDRMError", "")
      [] i = 6 -> Outcome("MobiError", "")

FirstRule(df) ==
    IF \E i \in 1..6 : RuleMatches(i, df)
    THEN CHOOSE i \in 1..6 :
            RuleMatches(i, df) /\ \A j \in 1..(i-1) : ~RuleMatches(j, df)
    ELSE 0

----------------------------------------------------------------------------
(* The input of a YJ_Book: the main file or directory and the files around *)
(* it.                                                                     *)
(*                                                                         *)
(* Files are named 1..NumFiles, DataFile ordering (by name) being the      *)
(* order of the numbers.  disk.form is "dir" when the main input is a      *)
(* directory that holds all the files, and "file" when it is file 1; the   *)
(* other files are then what file 1 brings with it: the content of its     *)
(* .sdr directory when it is a .kfx file, its members when it is a zip     *)
(* archive without a book marker.  A file's `frags` are the types of the   *)
(* fragments its container yields when it deserializes.                    *)

NumFiles == 2
MaxCalls == 2

Names == 1..NumFiles

Data(head, entries) == [head |-> head, mobi |-> FALSE, entries |-> entries]

File(ext, data, frags) == [ext |-> ext, data |-> data, frags |-> frags]

Entry(dir, base) == [dir |-> dir, base |-> base]

\* files with an extension of the KFX family, as a directory, a .sdr
\* directory or an archive of members holds them, and one file that
\* check_located_file passes over
SideFiles ==
    { File(".kfx", Data(SIGNATURE, <<>>), <<"meta", "cover">>),
      File(".kfx", Data(SIGNATURE, <<>>), <<"other">>),
      File(".kfx", Data(SIGNATURE, <<>>), <<>>),
      File(".kfx", Data(DRM_SIGNATURE, <<>>), <<>>),
      File(".res", Data("x1", <<>>), <<>>),
      File(".bin", Data(SIGNATURE, <<>>), <<"other">>) }

\* main files that stand alone: a package, a textual book, a zip-wrapped book
\* (its book.ion at the top of the archive, or in a directory of it)
LoneFiles ==
    { File(".kpf", Data(ZIP_SIGNATURE, <<Entry("sub/", "book.kdf")>>), <<"meta">>),
      File(".ion", Data("x2", <<>>), <<"other">>),
      File(".zip", Data(ZIP_SIGNATURE, <<Entry("", "book.ion")>>), <<"meta">>),
      File(".zip", Data(ZIP_SIGNATURE, <<Entry("sub/", "book.ion")>>), <<"meta">>),
      File(".res", Data("x1", <<>>), <<>>),
      File(".bin", Data(SIGNATURE, <<>>), <<"other">>) }

\* main files that bring other files with them: a .kfx file with its .sdr
\* directory, a zip archive of member files; and a binary container under
\* another extension, with a .sdr directory next to it
LeadFiles ==
    { f \in SideFiles : f.ext \in {".kfx", ".bin"} }
    \cup { File(".zip", Data(ZIP_SIGNATURE, <<Entry("", "res.bin")>>), <<>>) }

Layouts ==
    { d \in [form : {"dir", "file"}, files : [Names -> SideFiles \cup {NoFile}]] :
        d.form = "file" => d.files[1] \in LeadFiles }
    \cup
    { [form |-> "file", files |-> [n \in Names |-> IF n = 1 THEN f ELSE NoFile]] :
        f \in LoneFiles \cup LeadFiles }

\* the files a directory walk, or the infolist of the main archive, lists
WalkedNames(d) ==
    IF d.form = "dir" THEN {n \in Names : d.files[n] # NoFile}
    ELSE {n \in Names : n # 1 /\ d.files[n] # NoFile}

Perms(S) ==
    {w \in [1..Cardinality(S) -> S] : \A i, j \in DOMAIN w : w[i] = w[j] => i = j}

\* disk.walk is the order in which the walk (the infolist) lists the files
Disks ==
    UNION { { [form |-> d.form, files |-> d.files, walk |-> w] :
                w \in Perms(WalkedNames(d)) } : d \in Layouts }

FileOf(n) == disk.files[n]

Present(n) == FileOf(n) # NoFile

\* the fragments the container of file n yields, each tagged with its file
\* and its position in the file
FragsOfFile(n) ==
    [i \in 1..Len(FileOf(n).frags) |->
        [src |-> n, ix |-> i, ftype |-> FileOf(n).frags[i]]]

----------------------------------------------------------------------------
(* YJ_Book.locate_book_datafiles                                           *)

KfxFamilyExts == {".azw", ".azw8", ".azw9", ".kfx", ".md", ".res", ".yj"}

\* Faulty variant of check_located_file: no file is taken.
check_located_file_None(cdf, n) == cdf

check_located_file(cdf, n) ==
    IF FileOf(n).ext \in KfxFamilyExts THEN Append(cdf, n) ELSE cdf

\* locate_files_from_dir, and the loop over the members of the main archive:
\* check_located_file on every file, in the order `walk` lists them
RECURSIVE locate_files(_, _)
locate_files(cdf, walk) ==
    IF walk = <<>> THEN cdf
    ELSE locate_files(check_located_file(cdf, Head(walk)), Tail(walk))

RECURSIVE InsertByName(_, _)
InsertByName(n, s) ==
    IF s = <<>> THEN <<n>>
    ELSE IF n <= Head(s) THEN <<n>> \o s
    ELSE <<Head(s)>> \o InsertByName(n, Tail(s))

\* Faulty variant of sorted: the list is left in the order of discovery.
sorted_NoSort(s) == s

\* sorted(self.container_datafiles): DataFile orders by name
RECURSIVE sorted(_)
sorted(s) == IF s = <<>> THEN <<>> ELSE InsertByName(Head(s), sorted(Tail(s)))

Located(cdf, exc) == [cdf |-> cdf, exc |-> exc]

\* the container_datafiles before the checks that end locate_book_datafiles;
\* "unknown" when the main file type is none of the known ones
LocateAppend(walk) ==
    IF disk.form = "dir" THEN Located(locate_files(<<>>, walk), "")
    ELSE IF FileOf(1).ext \in {".azw8", ".ion", ".kfx", ".kpf"}
         THEN (IF FileOf(1).ext = ".kfx" /\ walk # <<>>
               THEN Located(locate_files(<<1>>, walk), "")
               ELSE Located(<<1>>, ""))
    ELSE IF FileOf(1).ext \in {".kfx-zip", ".zip"}
         THEN (IF \E i \in DOMAIN FileOf(1).data.entries :
                        IsMarker(FileOf(1).data.entries[i])
               THEN Located(<<1>>, "")
               ELSE Located(locate_files(<<>>, walk), ""))
    ELSE Located(<<>>, "UnknownMainFileType")

locate_book_datafiles(walk) ==
    LET a == LocateAppend(walk) IN
    IF a.exc # "" THEN a
    ELSE IF a.cdf = <<>> THEN Located(<<>>, "NoKFXContainers")
    ELSE Located(sorted(a.cdf), "")

----------------------------------------------------------------------------
(* Containers and their deserialize.                                       *)
(*                                                                         *)
(* container.deserialize() can raise for reasons the model does not look   *)
(* into (a file that cannot be read, malformed content); `fail` names the  *)
(* located file for which it does in the call at hand, 0 for none.         *)

Ev(e, f) == [e |-> e, f |-> f]

Container(tag, n, frags) == [tag |-> tag, name |-> n, fragments |-> frags]

Deserialized(exc, frags, prepub) == [exc |-> exc, frags |-> frags, prepub |-> prepub]

\* ZipUnpackContainer.deserialize looks for the entry named "book.ion"
HasBookIonEntry(n) ==
    \E i \in DOMAIN FileOf(n).data.entries :
        FileOf(n).data.entries[i] = Entry("", "book.ion")

\* a KpfContainer marks its book as being in the pre-publication layout
deserialize(tag, n, fail) ==
    IF n = fail THEN Deserialized("DeserializeError", <<>>, FALSE)
    ELSE IF tag = "ZipUnpackContainer" /\ ~HasBookIonEntry(n)
         THEN Deserialized("BookIonMissing", <<>>, FALSE)
    ELSE Deserialized("", FragsOfFile(n), tag = "KpfContainer")

RECURSIVE Flatten(_)
Flatten(containers) ==
    IF containers = <<>> THEN <<>>
    ELSE Head(containers).fragments \o Flatten(Tail(containers))

has_metadata(frs) == \E i \in DOMAIN frs : frs[i].ftype = "meta"

has_cover_data(frs) == \E i \in DOMAIN frs : frs[i].ftype = "cover"

----------------------------------------------------------------------------
(* The operations of YJ_Book.  Each takes the fields of the instance (b)   *)
(* and gives the fields after the call, the exception the call left with   *)
(* ("" when it returned), what it did in order, and whether a decode_book  *)
(* returned normally within it.                                            *)

Self ==
    [fragments |-> fragments, yj_containers |-> yj_containers,
     container_datafiles |-> container_datafiles, is_kpf_prepub |-> is_kpf_prepub]

Ret(b, exc, ev, dec) == [b |-> b, exc |-> exc, ev |-> ev, dec |-> dec]

\* Faulty variant of DecodeLoop: a file whose get_container or deserialize
\* raises is passed over, as get_metadata does.
RECURSIVE DecodeLoop_SkipFailed(_, _, _)
DecodeLoop_SkipFailed(files, fail, st) ==
    IF files = <<>> THEN st
    ELSE LET n   == Head(files)
             c   == get_container(FileOf(n), FALSE)
             ev1 == Append(st.ev, Ev("get_container", n))
             d   == deserialize(c.tag, n, fail)
             ev2 == Append(ev1, Ev("deserialize", n))
         IN  IF c.tag \in ErrorTags
             THEN DecodeLoop_SkipFailed(Tail(files), fail, [st EXCEPT !.ev = ev1])
             ELSE IF d.exc # ""
             THEN DecodeLoop_SkipFailed(Tail(files), fail, [st EXCEPT !.ev = ev2])
             ELSE DecodeLoop_SkipFailed(Tail(files), fail,
                     [yj     |-> Append(st.yj, Container(c.tag, n, d.frags)),
                      prepub |-> st.prepub \/ d.prepub,
                      ev     |-> ev2,
                      exc    |-> ""])

\* the loop of decode_book over self.container_datafiles;
\* st = [yj, prepub, ev, exc]
RECURSIVE DecodeLoop(_, _, _)
DecodeLoop(files, fail, st) ==
    IF files = <<>> THEN st
    ELSE LET n   == Head(files)
             c   == get_container(FileOf(n), FALSE)
             ev1 == Append(st.ev, Ev("get_container", n))
             d   == deserialize(c.tag, n, fail)
             ev2 == Append(ev1, Ev("deserialize", n))
         IN  IF c.tag \in ErrorTags
             THEN [st EXCEPT !.ev = ev1, !.exc = c.tag]
             ELSE IF d.exc # ""
             THEN [st EXCEPT !.ev = ev2, !.exc = d.exc]
             ELSE DecodeLoop(Tail(files), fail,
                     [yj     |-> Append(st.yj, Container(c.tag, n, d.frags)),
                      prepub |-> st.prepub \/ d.prepub,
                      ev     |-> ev2,
                      exc    |-> ""])

\* decode_book from the merge on: the fragments of every container of
\* self.yj_containers are appended, a pre-publication book is fixed up, the
\* checks run and final_actions ends the call
DecodeFinish(b, cdf, st) ==
    LET merged == b.fragments \o Flatten(st.yj)
        evm    == Append(st.ev, Ev("merge", 0))
        evf    == IF st.prepub THEN Append(evm, Ev("fix_kpf_prepub_book", 0)) ELSE evm
    IN  Ret([fragments |-> merged, yj_containers |-> st.yj,
             container_datafiles |-> cdf, is_kpf_prepub |-> FALSE],
            "",
            evf \o <<Ev("check_consistency", 0), Ev("final_actions", 0)>>,
            TRUE)

decode_book(b, walk, fail) ==
    IF b.fragments # <<>> THEN Ret(b, "", <<>>, TRUE)
    ELSE
    LET loc == locate_book_datafiles(walk)
        st  == DecodeLoop(loc.cdf, fail,
                    [yj |-> b.yj_containers, prepub |-> b.is_kpf_prepub,
                     ev |-> <<Ev("locate", 0)>>, exc |-> ""])
    IN  IF loc.exc # ""
        THEN Ret([b EXCEPT !.container_datafiles = loc.cdf], loc.exc,
                 <<Ev("locate", 0)>>, FALSE)
        ELSE IF st.exc # ""
        THEN Ret([b EXCEPT !.container_datafiles = loc.cdf,
                           !.yj_containers = st.yj,
                           !.is_kpf_prepub = st.prepub],
                 st.exc, st.ev, FALSE)
        ELSE DecodeFinish(b, loc.cdf, st)

\* Faulty variant of MetadataLoop: the loop ends at the first file whose
\* get_container or deserialize raises.
RECURSIVE MetadataLoop_StopAtFailure(_, _, _)
MetadataLoop_StopAtFailure(files, fail, st) ==
    IF files = <<>> THEN st
    ELSE LET n   == Head(files)
             c   == get_container(FileOf(n), TRUE)
             ev1 == Append(st.ev, Ev("get_container", n))
             d   == deserialize(c.tag, n, fail)
             ev2 == Append(ev1, Ev("deserialize", n))
             fr  == st.fragments \o d.frags
             ok  == [fragments |-> fr, prepub |-> st.prepub \/ d.prepub,
                     ev |-> Append(ev2, Ev("extend", n))]
         IN  IF c.tag = "None"
             THEN MetadataLoop_StopAtFailure(Tail(files), fail, [st EXCEPT !.ev = ev1])
             ELSE IF c.tag \in ErrorTags
             THEN [st EXCEPT !.ev = Append(ev1, Ev("warning", n))]
             ELSE IF d.exc # ""
             THEN [st EXCEPT !.ev = Append(ev2, Ev("warning", n))]
             ELSE IF has_metadata(fr) /\ has_cover_data(fr)
             THEN [ok EXCEPT !.ev = Append(ok.ev, Ev("break", n))]
             ELSE MetadataLoop_StopAtFailure(Tail(files), fail, ok)

\* the loop of get_metadata; st = [fragments, prepub, ev]
RECURSIVE MetadataLoop(_, _, _)
MetadataLoop(files, fail, st) ==
    IF files = <<>> THEN st
    ELSE LET n   == Head(files)
             c   == get_container(FileOf(n), TRUE)
             ev1 == Append(st.ev, Ev("get_container", n))
             d   == deserialize(c.tag, n, fail)
             ev2 == Append(ev1, Ev("deserialize", n))
             fr  == st.fragments \o d.frags
             ok  == [fragments |-> fr, prepub |-> st.prepub \/ d.prepub,
                     ev |-> Append(ev2, Ev("extend", n))]
         IN  IF c.tag = "None"
             THEN MetadataLoop(Tail(files), fail, [st EXCEPT !.ev = ev1])
             ELSE IF c.tag \in ErrorTags
             THEN MetadataLoop(Tail(files), fail,
                               [st EXCEPT !.ev = Append(ev1, Ev("warning", n))])
             ELSE IF d.exc # ""
             THEN MetadataLoop(Tail(files), fail,
                               [st EXCEPT !.ev = Append(ev2, Ev("warning", n))])
             ELSE IF has_metadata(fr) /\ has_cover_data(fr)
             THEN [ok EXCEPT !.ev = Append(ok.ev, Ev("break", n))]
             ELSE MetadataLoop(Tail(files), fail, ok)

get_metadata(b, walk, fail) ==
    LET loc == locate_book_datafiles(walk)
        st  == MetadataLoop(loc.cdf, fail,
                    [fragments |-> b.fragments, prepub |-> b.is_kpf_prepub,
                     ev |-> <<Ev("locate", 0)>>])
        b2  == [b EXCEPT !.container_datafiles = loc.cdf,
                         !.fragments = st.fragments,
                         !.is_kpf_prepub = st.prepub]
    IN  IF loc.exc # ""
        THEN Ret([b EXCEPT !.container_datafiles = loc.cdf], loc.exc,
                 <<Ev("locate", 0)>>, FALSE)
        ELSE IF ~has_metadata(st.fragments)
        THEN Ret(b2, "NoMetadata", st.ev, FALSE)
        ELSE Ret(b2, "", Append(st.ev, Ev("get_from_book", 0)), FALSE)

convert_to_single_kfx(b, walk, fail) ==
    LET r == decode_book(b, walk, fail) IN
    IF r.exc # "" THEN r
    ELSE IF r.b.is_kpf_prepub
    THEN Ret(r.b, "CannotSerializeKPF", r.ev, TRUE)
    ELSE Ret(r.b, "", r.ev \o <<Ev("serialize", 0), Ev("final_actions", 0)>>, TRUE)

convert_to_zip_unpack(b, walk, fail) ==
    LET r == decode_book(b, walk, fail) IN
    IF r.exc # "" THEN r
    ELSE Ret(r.b, "", r.ev \o <<Ev("serialize", 0), Ev("final_actions", 0)>>, TRUE)

convert_to_epub(b, walk, fail) ==
    LET r == decode_book(b, walk, fail) IN
    IF r.exc # "" THEN r
    ELSE Ret(r.b, "", r.ev \o <<Ev("epub_data", 0), Ev("final_actions", 0)>>, TRUE)

----------------------------------------------------------------------------
(* Spec: operations called one after the other on one instance.            *)

Init ==
    /\ DispatchIdle
    /\ ZipIdle
    /\ LogIdle
    /\ PluginIdle
    /\ ExtIdle
    /\ disk \in Disks
    /\ fragments = <<>>
    /\ yj_containers = <<>>
    /\ container_datafiles = <<>>
    /\ is_kpf_prepub = FALSE
    /\ calls = 0
    /\ decode_returned = FALSE
    /\ last_op = ""
    /\ last_exc = ""
    /\ last_ev = <<>>
    /\ last_fail = 0
    /\ prev = NoBook

Called(op, fail, r) ==
    /\ calls < MaxCalls
    /\ calls' = calls + 1
    /\ fragments' = r.b.fragments
    /\ yj_containers' = r.b.yj_containers
    /\ container_datafiles' = r.b.container_datafiles
    /\ is_kpf_prepub' = r.b.is_kpf_prepub
    /\ decode_returned' = (decode_returned \/ r.dec)
    /\ last_op' = op
    /\ last_exc' = r.exc
    /\ last_ev' = r.ev
    /\ last_fail' = (IF Ev("deserialize", fail) \in Range(r.ev) THEN fail ELSE 0)
    /\ prev' = [fragments |-> fragments, yj_containers |-> yj_containers,
                container_datafiles |-> container_datafiles,
                is_kpf_prepub |-> is_kpf_prepub,
                decode_returned |-> decode_returned]
    /\ UNCHANGED <<disk, clsVars, zipVars, logVars, plugVars, extVars>>

\* the file for which deserialize raises in a call, if any
Fails == {0} \cup {n \in Names : Present(n)}

DecodeBook ==
    \E fail \in Fails :
        Called("decode_book", fail, decode_book(Self, disk.walk, fail))

GetMetadata ==
    \E fail \in Fails :
        Called("get_metadata", fail, get_metadata(Self, disk.walk, fail))

ConvertToSingleKfx ==
    \E fail \in Fails :
        Called("convert_to_single_kfx", fail, convert_to_single_kfx(Self, disk.walk, fail))

ConvertToZipUnpack ==
    \E fail \in Fails :
        Called("convert_to_zip_unpack", fail, convert_to_zip_unpack(Self, disk.walk, fail))

ConvertToEpub ==
    \E fail \in Fails :
        Called("convert_to_epub", fail, convert_to_epub(Self, disk.walk, fail))

Next ==
    \/ DecodeBook
    \/ GetMetadata
    \/ ConvertToSingleKfx
    \/ ConvertToZipUnpack
    \/ ConvertToEpub

Spec == Init /\ [][Next]_vars

----------------------------------------------------------------------------
(* Claims about the operations of YJ_Book (checked under Spec).            *)

DecodeOps ==
    {"decode_book", "convert_to_single_kfx", "convert_to_zip_unpack", "convert_to_epub"}

Did(e) == \E i \in DOMAIN last_ev : last_ev[i].e = e

DidOn(e, n) == Ev(e, n) \in Range(last_ev)

\* the last call located the files of the book
LocatedOk == Did("locate") /\ last_exc \notin {"UnknownMainFileType", "NoKFXContainers"}

LocatedNames == Range(container_datafiles)

IsSortedByName(s) == \A i, j \in DOMAIN s : i < j => s[i] < s[j]

RECURSIVE FragsInOrder(_)
FragsInOrder(names) ==
    IF names = <<>> THEN <<>>
    ELSE FragsOfFile(Head(names)) \o FragsInOrder(Tail(names))

\* C1: a decode_book called after a decode_book has returned is a no-op:
\* it leaves the fragment list and the list of deserialized containers as
\* they were, whatever the containers yielded (no fragment at all included).
C1_SecondDecodeIsNoOp ==
    (last_op = "decode_book" /\ prev.decode_returned)
    => /\ fragments = prev.fragments
       /\ yj_containers = prev.yj_containers

\* C6: convert_to_single_kfx and convert_to_zip_unpack raise, and serialize
\* nothing, when the book is in the pre-publication layout (is_kpf_prepub)
\* at the point where they would serialize.
C6_PrepubNeverSerialized ==
    (last_op \in {"convert_to_single_kfx", "convert_to_zip_unpack"}
        /\ is_kpf_prepub)
    => /\ last_exc # ""
       /\ ~Did("serialize")

\* get_container (as decode_book calls it) or deserialize raised for file n
\* in the last call
RaisedInDecode(n) ==
    \/ DidOn("get_container", n) /\ get_container(FileOf(n), FALSE).tag \in ErrorTags
    \/ DidOn("deserialize", n) /\ last_fail = n
    \/ DidOn("deserialize", n)
         /\ get_container(FileOf(n), FALSE).tag = "ZipUnpackContainer"
         /\ ~HasBookIonEntry(n)

\* C7: when get_container or deserialize raises for a located file during
\* decode_book, decode_book raises, the fragment list of the book stays
\* empty, and neither the merge, nor the consistency check, nor a
\* serialization follows.
C7_FailedFileAbortsDecode ==
    (last_op \in DecodeOps /\ \E n \in Names : RaisedInDecode(n))
    => /\ last_exc # ""
       /\ fragments = <<>>
       /\ ~Did("merge") /\ ~Did("check_consistency")
       /\ ~Did("serialize") /\ ~Did("epub_data")

\* the second of two located files fails after the first was deserialized
C7_Witness ==
    /\ last_op = "decode_book"
    /\ Len(container_datafiles) = 2
    /\ RaisedInDecode(container_datafiles[2])
    /\ DidOn("deserialize", container_datafiles[1])
    /\ FileOf(container_datafiles[1]).frags # <<>>
    /\ last_exc # ""

\* get_container (as get_metadata calls it) or deserialize raises for file n
RaisesInMetadata(n) ==
    \/ get_container(FileOf(n), TRUE).tag \in ErrorTags
    \/ last_fail = n
    \/ get_container(FileOf(n), TRUE).tag = "ZipUnpackContainer" /\ ~HasBookIonEntry(n)

\* the files get_container was called on in the last call, in order
TriedSeq ==
    LET gc == SelectSeq(last_ev, LAMBDA e : e.e = "get_container")
    IN  [i \in DOMAIN gc |-> gc[i].f]

Tried(n) == DidOn("get_container", n)

\* file n was tried and gave a container that deserialized
Contributes(n) ==
    /\ Tried(n)
    /\ ~RaisesInMetadata(n)
    /\ get_container(FileOf(n), TRUE).tag # "None"

\* C8: in get_metadata a located file whose get_container or deserialize
\* raises is logged as a warning and passed over: it adds no fragment, the
\* file after it is tried, the files are tried in their order, and
\* get_metadata raises only when every located file was tried and the
\* fragments hold no metadata.
C8_MetadataSkipsFailedFiles ==
    (last_op = "get_metadata" /\ LocatedOk)
    => /\ TriedSeq = SubSeq(container_datafiles, 1, Len(TriedSeq))
       /\ \A i \in DOMAIN container_datafiles :
             (Tried(container_datafiles[i]) /\ RaisesInMetadata(container_datafiles[i]))
             => /\ DidOn("warning", container_datafiles[i])
                /\ i < Len(container_datafiles) => Tried(container_datafiles[i + 1])
       /\ fragments =
             prev.fragments \o FragsInOrder(SelectSeq(container_datafiles, Contributes))
       /\ last_exc # ""
             => TriedSeq = container_datafiles /\ ~has_metadata(fragments)
       /\ has_metadata(fragments) => last_exc = ""

\* the first of two located files raised, the second gave the metadata
C8_Witness ==
    /\ last_op = "get_metadata"
    /\ Len(container_datafiles) = 2
    /\ RaisesInMetadata(container_datafiles[1])
    /\ DidOn("warning", container_datafiles[1])
    /\ Contributes(container_datafiles[2])
    /\ has_metadata(fragments)
    /\ last_exc = ""

\* C9: final_actions (the cleanup of the temporary files) has run when
\* decode_book, convert_to_single_kfx, convert_to_zip_unpack or
\* convert_to_epub gives control back, exception or not.
C9_CleanupOnEveryPath ==
    last_op \in DecodeOps => Did("final_actions")

\* C10: container_datafiles is sorted by name once the files are located,
\* and after a decode_book that returned the fragment list of the book is
\* the fragment lists of the located files, one after the other in that
\* order.
C10_MergeInNameOrder ==
    /\ IsSortedByName(container_datafiles)
    /\ (last_op = "decode_book" /\ last_exc = "")
        => fragments = FragsInOrder(container_datafiles)

----------------------------------------------------------------------------
(* The zip-wrapped container (kfxlib/unpack_container.py).                 *)
(*                                                                         *)
(* A name (fragment id, location, archive entry name, extension) is a      *)
(* sequence of tokens: ".", "/" and words that hold neither character.     *)
(* A fragment is [ftype, fid, value]; a value holds the fields the codec   *)
(* reads: `blob` the class of the raw bytes of a resource, `loc` the       *)
(* location $165, `fmt` the format symbol $161, `mime` the mime type $162  *)
(* and `tiles` the tile grid $636 (rows of locations); a field a value     *)
(* does not have is empty.                                                 *)

MaxRes == 2

Value(blob, loc, fmt, mime, tiles) ==
    [blob |-> blob, loc |-> loc, fmt |-> fmt, mime |-> mime, tiles |-> tiles]

IonBLOB(b) == Value(b, <<>>, "", "", <<>>)

YJFragment(ftype, fid, value) == [ftype |-> ftype, fid |-> fid, value |-> value]

BookIon == <<"book", ".", "ion">>

ADDED_EXT_FLAG_CHAR == <<".">>

LastIndexOf(p, c) ==
    LET I == {i \in DOMAIN p : p[i] = c}
    IN  IF I = {} THEN 0 ELSE CHOOSE i \in I : \A j \in I : j <= i

\* posixpath.splitext: the extension starts at the last "." after the last
\* "/", unless only dots stand between the two
splitext(p) ==
    LET sepIndex == LastIndexOf(p, "/")
        dotIndex == LastIndexOf(p, ".")
    IN  IF /\ dotIndex > sepIndex
           /\ \E i \in (sepIndex + 1)..(dotIndex - 1) : p[i] # "."
        THEN [root |-> SubSeq(p, 1, dotIndex - 1),
              ext  |-> SubSeq(p, dotIndex, Len(p))]
        ELSE [root |-> p, ext |-> <<>>]

endswith(p, c) == Len(p) > 0 /\ p[Len(p)] = c

\* raw-byte sniffing, on the class of the leading bytes
image_file_ext(b) ==
    CASE b = "GIF"  -> <<".", "gif">>
      [] b = "JPEG" -> <<".", "jpg">>
      [] b = "PNG"  -> <<".", "png">>
      [] OTHER      -> <<>>

font_file_ext(b) ==
    CASE b = "TTF"  -> <<".", "ttf">>
      [] b = "OTTO" -> <<".", "otf">>
      [] b = "wOFF" -> <<".", "woff">>
      [] OTHER      -> <<>>

SymbolFormatKeys == {"$285", "$287"}

SYMBOL_FORMATS(format) == IF format = "$285" THEN <<"jpg">> ELSE <<"pobject">>

MimeKeys == {"application/pdf", "figure", "image/jpeg"}

EXTS_OF_MIMETYPE(mime) ==
    CASE mime = "application/pdf" -> << <<".", "pdf">> >>
      [] mime = "figure"          -> << <<".", "figure">> >>
      [] mime = "image/jpeg"      -> << <<".", "jpg">>, <<".", "jpeg">> >>

\* YJFragmentList.get_all(ftype) and .filtered(omit_resources=True)
get_all(frags, ftype) == SelectSeq(frags, LAMBDA f : f.ftype = ftype)

\* Faulty variant of filtered: nothing is left out.
filtered_None(frags) == frags

filtered(frags) == SelectSeq(frags, LAMBDA f : f.ftype \notin {"$417", "$418"})

\* the textual codec keeps the annotated values and their order
IonText_serialize(frags) == [blob |-> "", text |-> frags]

IonText_deserialize(data) == data.text

\* the extension one $164 fragment asks for: the extension of its location,
\* else the one of its format symbol, else (or for .pobject) of its mime type
ExtensionOf(value) ==
    LET extension == splitext(value.loc).ext
        byFormat  == IF value.fmt \in SymbolFormatKeys
                     THEN <<".">> \o SYMBOL_FORMATS(value.fmt)
                     ELSE <<>>
    IN  IF extension # <<>> THEN extension
        ELSE IF /\ byFormat \in {<<>>, <<".", "pobject">>}
                /\ value.mime \in MimeKeys
                /\ value.mime # "figure"
             THEN EXTS_OF_MIMETYPE(value.mime)[1]
             ELSE byFormat

TileLocations(value) == UNION {Range(value.tiles[i]) : i \in DOMAIN value.tiles}

\* the entries one $164 fragment puts into desired_extension
DesiredOf(value) ==
    LET extension == ExtensionOf(value)
        keys == IF extension = <<>> THEN {}
                ELSE (IF value.loc # <<>> THEN {value.loc} ELSE {})
                     \cup TileLocations(value)
    IN  [k \in keys |-> extension]

RECURSIVE desired_extension(_)
desired_extension(metas) ==
    IF metas = <<>> THEN [k \in {} |-> <<>>]
    ELSE DesiredOf(metas[Len(metas)].value)
            @@ desired_extension(SubSeq(metas, 1, Len(metas) - 1))

\* Faulty variant of EntryName: the bytes are sniffed before the hints of
\* the $164 fragments are looked at.
EntryName_SniffFirst(fragment, desired) ==
    LET fn == fragment.fid
        sniffed == IF fragment.ftype = "$417"
                   THEN image_file_ext(fragment.value.blob)
                   ELSE font_file_ext(fragment.value.blob)
        extension ==
            IF sniffed # <<>> THEN sniffed
            ELSE IF fragment.ftype = "$417" /\ fn \in DOMAIN desired
                 THEN desired[fn]
                 ELSE <<>>
    IN  IF splitext(fn).ext = <<>> /\ extension # <<>>
        THEN fn \o ADDED_EXT_FLAG_CHAR \o extension
        ELSE fn

\* the archive entry name of a resource fragment
EntryName(fragment, desired) ==
    LET fn == fragment.fid
        extension ==
            IF fragment.ftype = "$417"
            THEN IF fn \in DOMAIN desired THEN desired[fn]
                 ELSE image_file_ext(fragment.value.blob)
            ELSE font_file_ext(fragment.value.blob)
    IN  IF splitext(fn).ext = <<>> /\ extension # <<>>
        THEN fn \o ADDED_EXT_FLAG_CHAR \o extension
        ELSE fn

ZipEntry(name, data) == [name |-> name, data |-> data]

ZipUnpack_serialize(frags) ==
    LET desired == desired_extension(get_all(frags, "$164"))
        written(ftype) ==
            LET rs == get_all(frags, ftype)
            IN  [i \in DOMAIN rs |->
                    ZipEntry(EntryName(rs[i], desired),
                             [blob |-> rs[i].value.blob, text |-> <<>>])]
    IN  <<ZipEntry(BookIon, IonText_serialize(filtered(frags)))>>
            \o written("$417") \o written("$418")

\* the id an entry name stands for: an added extension is dropped together
\* with the flag character in front of it
FidOfEntry(filename) ==
    LET s == splitext(filename)
    IN  IF s.ext # <<>> /\ endswith(s.root, ".")
        THEN SubSeq(s.root, 1, Len(s.root) - 1)
        ELSE filename

\* Faulty variant of ResourceType: every entry is a generic resource.
ResourceType_NoFonts(fid, fonts) == "$417"

ResourceType(fid, fonts) == IF fid \in fonts THEN "$418" ELSE "$417"

\* a top-level value of a textual book is an annotated value (it has the
\* fragment type and id as annotations) or a bare value
IsAnnotation(v) == v.ftype # ""

\* Faulty variant of ValuesUntilBare: bare values are passed over.
ValuesUntilBare_Skip(values) == SelectSeq(values, IsAnnotation)

\* the values in front of the first bare value
RECURSIVE ValuesUntilBare(_)
ValuesUntilBare(values) ==
    IF values = <<>> \/ ~IsAnnotation(Head(values)) THEN <<>>
    ELSE <<Head(values)>> \o ValuesUntilBare(Tail(values))

\* Faulty variant of IonTextContainer_deserialize: a bare value is passed
\* over and the other values are taken.
IonTextContainer_deserialize_Skip(data, held) ==
    [exc |-> "", fragments |-> ValuesUntilBare_Skip(IonText_deserialize(data))]

\* IonTextContainer.deserialize: the fragments held are dropped, then every
\* value becomes a fragment until a value is found that is no annotation
IonTextContainer_deserialize(data, held) ==
    LET values == IonText_deserialize(data)
        taken  == ValuesUntilBare(values)
    IN  [exc |-> IF Len(taken) < Len(values)
                 THEN "deserialize kfx ion text expected IonAnnotation"
                 ELSE "",
         fragments |-> [i \in DOMAIN taken |->
                            YJFragment(taken[i].ftype, taken[i].fid, taken[i].value)]]

\* Faulty variant of IsResourceEntry: directory entries are resources too.
IsResourceEntry_Dirs(info) == info.name # BookIon

IsResourceEntry(info) == info.name # BookIon /\ ~endswith(info.name, "/")

ZipUnpack_deserialize(archive, held) ==
    LET books == {i \in DOMAIN archive : archive[i].name = BookIon}
    IN  IF books = {}
        THEN [exc |-> "book.ion file missing from ZipUnpackContainer",
              fragments |-> held]
        ELSE
            LET first == CHOOSE i \in books : \A j \in books : i <= j
                text  == IonTextContainer_deserialize(archive[first].data, held)
                base  == text.fragments
                fonts == {base[i].value.loc :
                            i \in {j \in DOMAIN base : base[j].ftype = "$262"}}
                infos == SelectSeq(archive, IsResourceEntry)
            IN  IF text.exc # "" THEN text ELSE
                [exc |-> "",
                 fragments |-> base \o
                    [i \in DOMAIN infos |->
                        YJFragment(ResourceType(FidOfEntry(infos[i].name), fonts),
                                   FidOfEntry(infos[i].name),
                                   IonBLOB(infos[i].data.blob))]]

----------------------------------------------------------------------------
(* SpecZip: a fragment list is serialized and the archive deserialized.    *)

Blobs == {"JPEG", "OTTO"}

\* ids without an extension, which serialize may extend
PlainIds == { <<"r">>, <<"d", "/", "r">> }

\* ids with an extension, an id that reads like an extended one, an id of
\* dots only, a directory-like id and the name of the book entry
OtherIds ==
    { <<"r", ".", "jpg">>, <<"r", ".", ".", "jpg">>, <<".">>, <<"r", "/">>,
      BookIon }

ResFrags ==
    {YJFragment(t, id, IonBLOB(b)) :
        t \in {"$417", "$418"}, id \in PlainIds, b \in Blobs}
    \cup
    {YJFragment(t, id, IonBLOB("JPEG")) : t \in {"$417", "$418"}, id \in OtherIds}

\* $262 font fragments, naming the location of the font resource
FontRefs ==
    { <<>>, <<YJFragment("$262", <<"f">>, Value("", <<"r">>, "", "", <<>>))>> }

\* $164 resource descriptions
Metas ==
    {<<>>} \cup
    {<<YJFragment("$164", <<"e">>, v)>> :
        v \in { Value("", <<"r">>, "$285", "", <<>>),
                Value("", <<"r">>, "$285", "application/pdf", <<>>),
                Value("", <<"r">>, "$287", "application/pdf", <<>>),
                Value("", <<"r">>, "$287", "", <<>>),
                Value("", <<"r">>, "", "image/jpeg", <<>>),
                Value("", <<"r">>, "", "figure", <<>>),
                Value("", <<"r", ".", "jpg">>, "", "", << << <<"d", "/", "r">> >> >>),
                Value("", <<"r">>, "", "", << << <<"d", "/", "r">> >> >>) }}
    \cup
    { <<YJFragment("$164", <<"e">>,
            Value("", <<"r", ".", "jpg">>, "", "", << << <<"d", "/", "r">> >> >>)),
        YJFragment("$164", <<"g">>,
            Value("", <<"r">>, "", "application/pdf", << << <<"d", "/", "r">> >> >>))>> }
    \cup
    { <<YJFragment("$164", <<"e">>, Value("", <<"r">>, "$285", "", <<>>)),
        YJFragment("$164", <<"g">>, Value("", <<"r">>, "", "application/pdf", <<>>))>> }

BookParts ==
    {<<YJFragment("$538", <<"doc">>, Value("", <<>>, "", "", <<>>))>> \o fr \o me :
        fr \in FontRefs, me \in Metas}

ZipInputs == {bp \o rs : bp \in BookParts, rs \in SeqsUpTo(ResFrags, MaxRes)}

MaxZipEntries == 3

Doc == YJFragment("$538", <<"doc">>, Value("", <<>>, "", "", <<>>))

FontOf(loc) == YJFragment("$262", <<"f">>, Value("", loc, "", "", <<>>))

\* a value without annotations
Bare == YJFragment("", <<>>, Value("", <<>>, "", "", <<>>))

\* the values of textual books: well-formed ones, and ones with a bare value
Texts ==
    { <<>>, <<Doc>>, <<FontOf(<<"r">>)>>, <<Doc, FontOf(<<"r">>)>>,
      <<Bare>>, <<Doc, Bare>>, <<Doc, Bare, FontOf(<<"r">>)>> }

\* the entries of archives that are handed in: book entries, resource
\* entries with and without an added extension, a directory entry
ForeignEntries ==
    { ZipEntry(BookIon, IonText_serialize(t)) : t \in {<<FontOf(<<"r">>)>>, <<Doc>>, <<Doc, Bare>>} }
    \cup
    { ZipEntry(<<"r">>, [blob |-> "OTTO", text |-> <<>>]),
      ZipEntry(<<"r", ".", ".", "otf">>, [blob |-> "OTTO", text |-> <<>>]),
      ZipEntry(<<"s", ".", "jpg">>, [blob |-> "JPEG", text |-> <<>>]),
      ZipEntry(<<"d", "/">>, [blob |-> "", text |-> <<>>]) }

ForeignArchives == SeqsUpTo(ForeignEntries, MaxZipEntries)

\* the fragments a container holds before deserialize is called
HeldFragments == { <<>>, <<Doc>> }

InitZip ==
    /\ BookIdle
    /\ DispatchIdle
    /\ LogIdle
    /\ PluginIdle
    /\ ExtIdle
    /\ \/ /\ zc_phase = "built"
          /\ zc_fragments \in ZipInputs
          /\ zc_archive = <<>>
          /\ zc_out = <<>>
       \/ /\ zc_phase = "archive"
          /\ zc_fragments = <<>>
          /\ zc_archive \in ForeignArchives
          /\ zc_out \in HeldFragments
       \/ /\ zc_phase = "text"
          /\ zc_fragments = <<>>
          /\ zc_archive \in {<<ZipEntry(<<"book", ".", "ion">>, IonText_serialize(t))>> : t \in Texts}
          /\ zc_out \in HeldFragments

ZipSerialize ==
    /\ zc_phase = "built"
    /\ zc_archive' = ZipUnpack_serialize(zc_fragments)
    /\ zc_phase' = "serialized"
    /\ UNCHANGED <<zc_fragments, zc_out, clsVars, bookVars, logVars, plugVars, extVars>>

\* deserialize of the archive serialize wrote ("serialized"), or of an
\* archive that was handed in ("archive")
ZipDeserialize ==
    /\ zc_phase \in {"serialized", "archive"}
    /\ LET r == ZipUnpack_deserialize(zc_archive, zc_out)
       IN  /\ zc_out' = r.fragments
           /\ zc_phase' = (IF r.exc # "" THEN "failed"
                           ELSE IF zc_phase = "serialized" THEN "deserialized"
                           ELSE "read")
    /\ UNCHANGED <<zc_fragments, zc_archive, clsVars, bookVars, logVars, plugVars, extVars>>

\* IonTextContainer.deserialize of a textual data file
TextDeserialize ==
    /\ zc_phase = "text"
    /\ LET r == IonTextContainer_deserialize(zc_archive[1].data, zc_out)
       IN  /\ zc_out' = r.fragments
           /\ zc_phase' = (IF r.exc # "" THEN "text_failed" ELSE "text_read")
    /\ UNCHANGED <<zc_fragments, zc_archive, clsVars, bookVars, logVars, plugVars, extVars>>

NextZip == ZipSerialize \/ ZipDeserialize \/ TextDeserialize

SpecZip == InitZip /\ [][NextZip]_vars

----------------------------------------------------------------------------
(* Claims about the zip-wrapped round trip.                                *)

Triples(frags) == Range(frags)

IsResource(f) == f.ftype \in {"$417", "$418"}

Resources(frags) == {f \in Range(frags) : IsResource(f)}

\* No resource-extension ambiguity, read in the widest sense: the entry
\* name written for each resource stands for the id of that resource and is
\* read back as a resource entry.
NoExtensionAmbiguity(frags) ==
    LET desired == desired_extension(get_all(frags, "$164"))
    IN  \A f \in Resources(frags) :
            LET name == EntryName(f, desired)
            IN  /\ name # BookIon
                /\ ~endswith(name, "/")
                /\ FidOfEntry(name) = f.fid

\* C5: for a fragment list F with no resource-extension ambiguity,
\* deserialize(serialize(F)) holds the same set of (type, id, value) triples
\* as F, every resource coming back with its type and its id.
C5_RoundTripIdentity ==
    (zc_phase = "deserialized" /\ NoExtensionAmbiguity(zc_fragments))
        => Triples(zc_out) = Triples(zc_fragments)

\* the resources typed as fonts are the ones the $262 fragments name
FontsAgreeWithReferences(frags) ==
    LET fonts == {f.value.loc : f \in {g \in Range(frags) : g.ftype = "$262"}}
    IN  \A f \in Resources(frags) : (f.ftype = "$418") <=> (f.fid \in fonts)

\* C5 (amended): for a fragment list F in which the entry name written for
\* each resource stands for its id, and in which a resource is a $418 font
\* exactly when a $262 fragment names its id as location, the fragments of
\* deserialize(serialize(F)) are the same (type, id, value) triples as F.
C5_RoundTripWithFontRefs ==
    (/\ zc_phase = "deserialized"
     /\ NoExtensionAmbiguity(zc_fragments)
     /\ FontsAgreeWithReferences(zc_fragments))
        => Triples(zc_out) = Triples(zc_fragments)

\* a font and a generic resource went through the round trip, the font
\* under an entry name with an added extension
C5_Witness ==
    /\ zc_phase = "deserialized"
    /\ NoExtensionAmbiguity(zc_fragments)
    /\ FontsAgreeWithReferences(zc_fragments)
    /\ \E f, g \in Resources(zc_fragments) :
        /\ f.ftype = "$418"
        /\ g.ftype = "$417"
        /\ \E e \in Range(zc_archive) :
            e.name = f.fid \o ADDED_EXT_FLAG_CHAR \o <<".", "otf">>
    /\ Triples(zc_out) = Triples(zc_fragments)

----------------------------------------------------------------------------
(* Claims about the sidecar directory (checked under Spec).                *)

\* the main file is a file with a .sdr directory next to it that holds n
SidecarFile(n) == disk.form = "file" /\ n # 1 /\ n \in Names /\ Present(n)

IsBinaryContainer(f) == f.data.head = SIGNATURE

\* C11: a main file name.ext in the binary format with a directory name.sdr
\* that holds a file of the same family (the same extension, the binary
\* format too): locate_book_datafiles returns both, sorted by name, and
\* decode_book merges the fragments of both.
C11_SidecarMerge ==
    \A n \in Names :
        (/\ SidecarFile(n)
         /\ IsBinaryContainer(FileOf(1)) /\ IsBinaryContainer(FileOf(n))
         /\ FileOf(n).ext = FileOf(1).ext
         /\ \A k \in Names : Present(k) => IsBinaryContainer(FileOf(k))
         /\ last_op = "decode_book" /\ calls = 1 /\ last_fail = 0)
        => /\ last_exc = ""
           /\ {1, n} \subseteq Range(container_datafiles)
           /\ IsSortedByName(container_datafiles)
           /\ Range(FragsOfFile(1)) \cup Range(FragsOfFile(n)) \subseteq Range(fragments)

\* C11 (amended): the .sdr directory counts for a main file with the
\* extension .kfx only, and of its files the ones with an extension of the
\* KFX family.  A decode_book that locates the files of such a book has the
\* main file and every such file in container_datafiles, sorted by name,
\* and no other file of the directory; when it returns, the fragments of
\* each of them are in the fragment list.  For a main file with an extension
\* that is none of .azw8, .ion, .kfx, .kpf, .kfx-zip, .zip it raises.
C11_KfxSidecarMerge ==
    (last_op = "decode_book" /\ Did("locate") /\ disk.form = "file")
    => /\ FileOf(1).ext = ".kfx" =>
            /\ \A n \in Names :
                    SidecarFile(n) =>
                        (n \in Range(container_datafiles)
                            <=> FileOf(n).ext \in KfxFamilyExts)
            /\ 1 \in Range(container_datafiles)
            /\ IsSortedByName(container_datafiles)
            /\ last_exc = "" =>
                    \A n \in Range(container_datafiles) :
                        Range(FragsOfFile(n)) \subseteq Range(fragments)
       /\ FileOf(1).ext \notin {".azw8", ".ion", ".kfx", ".kpf", ".kfx-zip", ".zip"}
            => last_exc = "UnknownMainFileType" /\ container_datafiles = <<>>

\* a .kfx main file and a .kfx file of its .sdr directory, both with
\* fragments, decoded and merged
C11_Witness ==
    /\ last_op = "decode_book" /\ last_exc = "" /\ Did("locate")
    /\ disk.form = "file"
    /\ FileOf(1).ext = ".kfx"
    /\ \E n \in Names :
        /\ SidecarFile(n) /\ FileOf(n).ext = ".kfx"
        /\ FragsOfFile(1) # <<>> /\ FragsOfFile(n) # <<>>
        /\ {1, n} \subseteq Range(container_datafiles)
        /\ Range(FragsOfFile(1)) \cup Range(FragsOfFile(n)) \subseteq Range(fragments)

----------------------------------------------------------------------------
(* Claims about the entry names ZipUnpackContainer.serialize writes        *)
(* (checked under SpecZip).                                                *)

Serialized == zc_phase \in {"serialized", "deserialized"}

\* the archive entry of the i-th fragment of type ftype: book.ion comes
\* first, the $417 fragments follow in their order, then the $418 fragments
EntryOfResource(ftype, i) ==
    zc_archive[1 + (IF ftype = "$418" THEN Len(get_all(zc_fragments, "$417")) ELSE 0) + i]

WithExtension(fid, extension) ==
    IF extension = <<>> THEN fid ELSE fid \o <<".">> \o extension

FirstOf(exts) == IF exts = <<>> THEN <<>> ELSE exts[1]

NonEmpty(exts) == SelectSeq(exts, LAMBDA e : e # <<>>)

\* the hints of one $164 fragment, on their own
LocationHint(value) == splitext(value.loc).ext

FormatHint(value) ==
    IF value.fmt \in SymbolFormatKeys THEN <<".">> \o SYMBOL_FORMATS(value.fmt) ELSE <<>>

MimeHint(value) ==
    IF value.mime \in MimeKeys THEN EXTS_OF_MIMETYPE(value.mime)[1] ELSE <<>>

\* the positions of the $164 fragments that name id as their location or as
\* one of their tile locations
Referencing(frags, id) ==
    {i \in DOMAIN frags :
        /\ frags[i].ftype = "$164"
        /\ id = frags[i].value.loc \/ id \in TileLocations(frags[i].value)}

Last(S) == CHOOSE i \in S : \A j \in S : j <= i

\* C12: the extension added to the entry of a resource fragment ($417 or
\* $418) whose id has none is the first one found in the order: extension
\* of the location in the referencing $164 fragment, format symbol, mime
\* type, sniffing of the bytes (FF D8 FF gives .jpg); none is added when
\* nothing is found.
C12_FallbackChain ==
    Serialized =>
        \A t \in {"$417", "$418"} :
            \A i \in DOMAIN get_all(zc_fragments, t) :
                LET f == get_all(zc_fragments, t)[i]
                    refs == Referencing(zc_fragments, f.fid)
                    hints == IF refs = {} THEN <<>>
                             ELSE LET v == zc_fragments[Last(refs)].value
                                  IN  <<LocationHint(v), FormatHint(v), MimeHint(v)>>
                    chain == hints \o <<image_file_ext(f.value.blob),
                                        font_file_ext(f.value.blob)>>
                IN  splitext(f.fid).ext = <<>>
                    => EntryOfResource(t, i).name
                            = WithExtension(f.fid, FirstOf(NonEmpty(chain)))

\* the extension the hints of one $164 fragment give: the extension of its
\* location; else the one of its format symbol, unless that is .pobject and
\* the mime type gives one; else the first one of its mime type ("figure"
\* aside)
HintOf(value) ==
    IF LocationHint(value) # <<>> THEN LocationHint(value)
    ELSE IF FormatHint(value) \notin {<<>>, <<".", "pobject">>} THEN FormatHint(value)
    ELSE IF MimeHint(value) # <<>> /\ value.mime # "figure" THEN MimeHint(value)
    ELSE FormatHint(value)

\* C12 (amended): for a $417 fragment whose id has no extension, the entry
\* gets the extension the hints give of the last $164 fragment that names
\* the id (as location or tile location) and whose hints give one, and
\* else the one image sniffing finds; for a $418 fragment whose id has no
\* extension the one font sniffing finds, whatever the $164 fragments say;
\* no extension is added when none is found, or when the id has one.
C12_HintsThenSniffing ==
    Serialized =>
        \A t \in {"$417", "$418"} :
            \A i \in DOMAIN get_all(zc_fragments, t) :
                LET f == get_all(zc_fragments, t)[i]
                    hinting == {k \in Referencing(zc_fragments, f.fid) :
                                    HintOf(zc_fragments[k].value) # <<>>}
                    extension ==
                        IF splitext(f.fid).ext # <<>> THEN <<>>
                        ELSE IF t = "$418" THEN font_file_ext(f.value.blob)
                        ELSE IF hinting # {}
                             THEN HintOf(zc_fragments[Last(hinting)].value)
                             ELSE image_file_ext(f.value.blob)
                IN  EntryOfResource(t, i).name = WithExtension(f.fid, extension)

\* a JPEG resource was written as .pdf on the word of its $164 fragment, and
\* another one as .jpg by its bytes
C12_Witness ==
    /\ Serialized
    /\ \E i, j \in DOMAIN get_all(zc_fragments, "$417") :
        LET f == get_all(zc_fragments, "$417")[i]
            g == get_all(zc_fragments, "$417")[j]
        IN  /\ f.value.blob = "JPEG" /\ g.value.blob = "JPEG"
            /\ EntryOfResource("$417", i).name = f.fid \o <<".", ".", "pdf">>
            /\ EntryOfResource("$417", j).name = g.fid \o <<".", ".", "jpg">>
            /\ Referencing(zc_fragments, g.fid) = {}

\* C13: the entry name serialize writes for a resource (its id, or its id,
\* the flag character and the extension found) is mapped back to the id by
\* the rule of deserialize, for every resource id; an id with an extension
\* of its own is never shortened.
C13_SuffixInvertible ==
    Serialized =>
        \A t \in {"$417", "$418"} :
            \A i \in DOMAIN get_all(zc_fragments, t) :
                FidOfEntry(EntryOfResource(t, i).name) = get_all(zc_fragments, t)[i].fid

----------------------------------------------------------------------------
(* Claims about ZipUnpackContainer.deserialize and                         *)
(* IonTextContainer.deserialize (checked under SpecZip).                   *)

ZipRead == zc_phase \in {"deserialized", "read"}

\* the values of the book entry of the archive (of the first one)
BookValues ==
    LET books == {i \in DOMAIN zc_archive : zc_archive[i].name = BookIon}
    IN  zc_archive[CHOOSE i \in books : \A j \in books : i <= j].data.text

\* the entries other than book entries and directory entries, in order
OtherEntries ==
    SelectSeq(zc_archive, LAMBDA e : e.name # BookIon /\ e.name[Len(e.name)] # "/")

FontLocations(frags) == {f.value.loc : f \in {g \in Range(frags) : g.ftype = "$262"}}

\* C14: deserialize gives one fragment per top-level value of the book.ion
\* entry, followed by one resource fragment per other entry that is no
\* directory entry; a resource fragment has the type $418 exactly when its
\* id is the location of a $262 font fragment read from book.ion, and the
\* type $417 otherwise.
C14_OneFragmentPerValueAndEntry ==
    ZipRead =>
        /\ Len(zc_out) = Len(BookValues) + Len(OtherEntries)
        /\ \A i \in DOMAIN BookValues :
                /\ zc_out[i].ftype = BookValues[i].ftype
                /\ zc_out[i].fid = BookValues[i].fid
                /\ zc_out[i].ftype \notin {"$417", "$418"}
        /\ \A k \in DOMAIN OtherEntries :
                LET f == zc_out[Len(BookValues) + k]
                IN  /\ f.ftype \in {"$417", "$418"}
                    /\ f.value = IonBLOB(OtherEntries[k].data.blob)
                    /\ f.ftype = "$418" <=> f.fid \in FontLocations(BookValues)

\* an archive that was handed in, with a book entry of one value, a font
\* entry the value names and an image entry, gave three fragments, the font
\* one of type $418
C14_Witness ==
    /\ zc_phase = "read"
    /\ Len(BookValues) = 1
    /\ Len(zc_archive) = 3 /\ Len(OtherEntries) = 2
    /\ Len(zc_out) = 3
    /\ \E i, j \in DOMAIN zc_out :
        /\ zc_out[i].ftype = "$418" /\ zc_out[i].fid = <<"r">>
        /\ zc_out[j].ftype = "$417" /\ zc_out[j].fid = <<"s", ".", "jpg">>

----------------------------------------------------------------------------
(* Claims about the archive ZipUnpackContainer.serialize writes (checked   *)
(* under SpecZip).                                                         *)

NumResources(frags) == Len(get_all(frags, "$417")) + Len(get_all(frags, "$418"))

\* C15: serialize writes no resource fragment into the book.ion entry and
\* writes every resource fragment ($417 and $418) as an entry of its own:
\* the archive is the book.ion entry and one entry per resource fragment,
\* and every fragment of the list is either in book.ion or an entry, not
\* both and not neither.
C15_ResourcesAreSeparateEntries ==
    Serialized =>
        /\ Len(zc_archive) = 1 + NumResources(zc_fragments)
        /\ zc_archive[1].name = BookIon
        /\ \A i \in DOMAIN zc_archive : (zc_archive[i].data.text # <<>>) => i = 1
        /\ \A v \in Range(zc_archive[1].data.text) : ~IsResource(v)
        /\ \A f \in Range(zc_fragments) :
                ~IsResource(f) <=> f \in Range(zc_archive[1].data.text)
        /\ Len(zc_archive[1].data.text) + NumResources(zc_fragments) = Len(zc_fragments)
        /\ \A t \in {"$417", "$418"} :
                \A i \in DOMAIN get_all(zc_fragments, t) :
                    /\ EntryOfResource(t, i).data.blob = get_all(zc_fragments, t)[i].value.blob
                    /\ EntryOfResource(t, i).data.text = <<>>

\* a list with fragments for book.ion, a $417 and a $418 resource was
\* written as three entries
C15_Witness ==
    /\ Serialized
    /\ Len(zc_archive) = 3
    /\ Len(zc_archive[1].data.text) >= 2
    /\ get_all(zc_fragments, "$417") # <<>>
    /\ get_all(zc_fragments, "$418") # <<>>

\* the extension of the entry written for a resource
WrittenExtension(t, i) == splitext(EntryOfResource(t, i).name).ext

\* C16: for every $164 fragment with a tile grid ($636), every tile
\* location of the grid is written with the same extension as the primary
\* resource of the fragment (its location), whatever the hints are, also
\* when they give no extension and when several $164 fragments share a tile
\* location.
C16_TilesFollowPrimary ==
    Serialized =>
        \A m \in Range(get_all(zc_fragments, "$164")) :
            \A t1, t2 \in {"$417", "$418"} :
                \A i \in DOMAIN get_all(zc_fragments, t1) :
                    \A j \in DOMAIN get_all(zc_fragments, t2) :
                        (/\ get_all(zc_fragments, t1)[i].fid = m.value.loc
                         /\ get_all(zc_fragments, t2)[j].fid \in TileLocations(m.value))
                        => WrittenExtension(t2, j) = WrittenExtension(t1, i)

TextDone == zc_phase \in {"text_read", "text_failed"}

TextValues == zc_archive[1].data.text

\* C17: IonTextContainer.deserialize raises when a top-level value is no
\* annotated value (the value is neither passed over nor wrapped); when
\* every value is annotated, each becomes one fragment, in the order of the
\* input, and the fragments the container held before are gone.
C17_BareValueIsAnError ==
    TextDone =>
        IF \E i \in DOMAIN TextValues : ~IsAnnotation(TextValues[i])
        THEN /\ zc_phase = "text_failed"
             /\ \A f \in Range(zc_out) : IsAnnotation(f)
        ELSE /\ zc_phase = "text_read"
             /\ Len(zc_out) = Len(TextValues)
             /\ \A i \in DOMAIN TextValues :
                    /\ zc_out[i].ftype = TextValues[i].ftype
                    /\ zc_out[i].fid = TextValues[i].fid
                    /\ zc_out[i].value = TextValues[i].value

\* deserialize raised for a text with a bare value between two annotated
\* ones
C17_Witness ==
    /\ zc_phase = "text_failed"
    /\ Len(TextValues) = 3
    /\ IsAnnotation(TextValues[1]) /\ ~IsAnnotation(TextValues[2])
    /\ IsAnnotation(TextValues[3])

----------------------------------------------------------------------------
(* SpecLog: the logger registration (kfxlib/message_logging.py), called    *)
(* from several threads.  thread_local_cfg is a threading.local: every     *)
(* thread has its own `logger` attribute, "unset" while the thread has not *)
(* assigned it.  A call is atomic in the model, since it touches only the  *)
(* attribute of the calling thread.                                        *)

Loggers == {"logA", "logB", "logC"}

\* the logging module, which get_current_logger falls back to
DefaultLogger == "logging"

\* set_logger(logger=None): the test is on the module-level `log`, which is
\* the LogCurrent proxy and never None, so the attribute is always assigned,
\* also when logger is None
set_logger(attr, logger) == logger

\* getattr(thread_local_cfg, "logger", logging)
get_current_logger(attr) == IF attr = "unset" THEN DefaultLogger ELSE attr

\* LogCurrent.__getattr__: getattr(get_current_logger(), method_name); the
\* result is the logger whose method is called
LogCurrent_getattr(attr) ==
    IF get_current_logger(attr) = "None" THEN "AttributeError"
    ELSE get_current_logger(attr)

InitLog ==
    /\ BookIdle
    /\ DispatchIdle
    /\ ZipIdle
    /\ LogIdle
    /\ PluginIdle
    /\ ExtIdle

\* thread t calls set_logger(logger), set_logger(None) or set_logger()
SetLogger(t) ==
    \E logger \in Loggers \cup {"None"} :
        /\ lg_attr' = [lg_attr EXCEPT ![t] = set_logger(lg_attr[t], logger)]
        /\ lg_registered' =
                [lg_registered EXCEPT ![t] = IF logger = "None" THEN "none" ELSE logger]
        /\ lg_obs' = LogCall(t, "set_logger", logger)
        /\ UNCHANGED <<clsVars, bookVars, zipVars, plugVars, extVars>>

GetCurrentLogger(t) ==
    /\ lg_obs' = LogCall(t, "get_current_logger", get_current_logger(lg_attr[t]))
    /\ UNCHANGED <<lg_attr, lg_registered, clsVars, bookVars, zipVars, plugVars, extVars>>

\* thread t calls log.info, log.warning, ...
LogMethod(t) ==
    /\ lg_obs' = LogCall(t, "log", LogCurrent_getattr(lg_attr[t]))
    /\ UNCHANGED <<lg_attr, lg_registered, clsVars, bookVars, zipVars, plugVars, extVars>>

NextLog ==
    \E t \in Threads : SetLogger(t) \/ GetCurrentLogger(t) \/ LogMethod(t)

SpecLog == InitLog /\ [][NextLog]_vars

\* C18: in every interleaving of set_logger, get_current_logger and
\* log.<method> calls of the threads, the logger a thread observes is the one
\* it last registered itself, or the default one if it has none registered;
\* it is never a logger another thread registered.
C18_LoggerPerThread ==
    lg_obs.op \in {"get_current_logger", "log"}
    => lg_obs.result =
            (IF lg_registered[lg_obs.t] = "none" THEN DefaultLogger
             ELSE lg_registered[lg_obs.t])

----------------------------------------------------------------------------
(* Claims about the order of the steps of a conversion (checked under      *)
(* Spec).                                                                  *)

ConvertOps == {"convert_to_single_kfx", "convert_to_zip_unpack", "convert_to_epub"}

\* the positions in the last call at which step e was taken
Pos(e) == {i \in DOMAIN last_ev : last_ev[i].e = e}

\* C19: in every convert_to_single_kfx, convert_to_zip_unpack and
\* convert_to_epub the files are located before a container is classified
\* or deserialized, every located container is deserialized before the
\* fragment lists are merged, the consistency check runs after the merge
\* and before the serialization, and nothing is serialized for a book whose
\* decode did not complete (in this call or in a decode_book that returned
\* before it).
C19_ForwardOnly ==
    last_op \in ConvertOps =>
        /\ \A i \in Pos("locate") :
                \A j \in Pos("get_container") \cup Pos("deserialize") : i < j
        /\ \A m \in Pos("merge") :
                \A n \in Range(container_datafiles) :
                    \E i \in Pos("deserialize") : i < m /\ last_ev[i].f = n
        /\ \A s \in Pos("serialize") \cup Pos("epub_data") :
                \/ \E m \in Pos("merge") :
                        \E c \in Pos("check_consistency") : m < c /\ c < s
                \/ prev.decode_returned

----------------------------------------------------------------------------
(* SpecPlugin: one run of KFXOutput.convert_from_kpf_or_zip                *)
(* (src/__init__.py), from the plugin (cli = FALSE) or from the command    *)
(* line (cli = TRUE), with a JobLog that collects the errors logged.       *)

\* JobLog.error: the message is collected
JobLog_error(log, msg) == [log EXCEPT !.errors = Append(@, msg)]

\* the keyword parameters of YJ_Book.decode_book (it has none) and the
\* keyword arguments convert_from_kpf_or_zip calls it with
decode_book_params == {}

decode_book_kwargs == {"set_metadata", "set_approximate_pages"}

\* YJ_Book.__init__ ends with load_symbol_catalog: a catalog file that does
\* not parse is logged as an error and the exception goes on; a catalog
\* without YJ_symbols raises with nothing logged
load_symbol_catalog(log, catalog) ==
    CASE catalog = "malformed" ->
            [log |-> JobLog_error(log, "Failed to parse symbol catalog"),
             raised |-> "ParseError"]
      [] catalog = "no_yj_symbols" ->
            [log |-> log, raised |-> "Exception: no definition for YJ_symbols"]
      [] OTHER -> [log |-> log, raised |-> ""]

\* report_failure raises, an Exception on the command line and a
\* ConversionUserFeedBack in the plugin
report_failure(cli, cat) ==
    IF cli THEN "Exception: " \o cat ELSE "ConversionUserFeedBack: " \o cat

PluginRun(log, raised, written, logger) ==
    [log |-> log, raised |-> raised, written |-> written, logger |-> logger]

convert_from_kpf_or_zip(in, log0) ==
    LET logger == set_logger("unset", "JobLog")
        book   == load_symbol_catalog(log0, in.catalog)
        \* what the library logs in decode_book and convert_to_single_kfx
        log2   == IF in.lib_errors
                  THEN JobLog_error(book.log, "error found by the checks of the book")
                  ELSE book.log
    IN  IF book.raised # ""
        THEN PluginRun(book.log, book.raised, FALSE, logger)
        ELSE IF ~(decode_book_kwargs \subseteq decode_book_params)
        THEN PluginRun(book.log, "TypeError", FALSE, logger)
        ELSE IF log2.errors # <<>> /\ ~in.cli
        THEN PluginRun(log2, report_failure(in.cli, "KFX creation error"), FALSE,
                       set_logger(logger, "None"))
        ELSE PluginRun(log2, "", TRUE, set_logger(logger, "None"))

PluginInputs ==
    [cli : BOOLEAN, from_kpf : BOOLEAN, cde_type_pdoc : BOOLEAN,
     asin : {"", "B000000000"},
     catalog : {"absent", "valid", "malformed", "no_yj_symbols"},
     lib_errors : BOOLEAN]

InitPlugin ==
    /\ BookIdle
    /\ DispatchIdle
    /\ ZipIdle
    /\ LogIdle
    /\ ExtIdle
    /\ pl_in \in PluginInputs
    /\ pl_phase = "called"
    /\ pl_log = JobLog(<<>>, <<>>)
    /\ pl_raised = ""
    /\ pl_written = FALSE
    /\ pl_logger = "unset"

ConvertFromKpfOrZip ==
    /\ pl_phase = "called"
    /\ LET r == convert_from_kpf_or_zip(pl_in, pl_log)
       IN  /\ pl_log' = r.log
           /\ pl_raised' = r.raised
           /\ pl_written' = r.written
           /\ pl_logger' = r.logger
    /\ pl_phase' = "done"
    /\ UNCHANGED <<pl_in, clsVars, bookVars, zipVars, logVars, extVars>>

NextPlugin == ConvertFromKpfOrZip

SpecPlugin == InitPlugin /\ [][NextPlugin]_vars

\* the failure report_failure raises for the errors collected
IsSummary(raised) ==
    raised \in {report_failure(TRUE, "KFX creation error"),
                report_failure(FALSE, "KFX creation error")}

\* C20: every run of convert_from_kpf_or_zip, in the plugin and on the
\* command line, ends with the output written or with a failure raised, not
\* both and not neither; the output is written only when no error was
\* collected in the job log, and when errors were collected the failure
\* that summarizes them is raised and no output is written.
C20_OutputOrSingleFailure ==
    pl_phase = "done" =>
        /\ pl_written <=> pl_raised = ""
        /\ pl_written => pl_log.errors = <<>>
        /\ pl_log.errors # <<>> => IsSummary(pl_raised) /\ ~pl_written

----------------------------------------------------------------------------
(* Claims about a decode_book that follows a call that did not complete a  *)
(* decode (checked under Spec).                                            *)

\* the fields of an instance on which nothing was called yet
FreshBook ==
    [fragments |-> <<>>, yj_containers |-> <<>>, container_datafiles |-> <<>>,
     is_kpf_prepub |-> FALSE]

\* the files of the containers in self.yj_containers, in order
ContainerNames == [i \in DOMAIN yj_containers |-> yj_containers[i].name]

NoDuplicates(s) == \A i, j \in DOMAIN s : s[i] = s[j] => i = j

\* C23: when a decode_book raised part-way (containers were deserialized,
\* then a later file failed), a decode_book on the same instance that then
\* succeeds leaves the fragment list one decode_book on a fresh instance
\* gives, and no container is merged twice.
C23_RetryAfterFailedDecode ==
    (/\ last_op = "decode_book" /\ last_exc = "" /\ Did("merge")
     /\ ~prev.decode_returned /\ prev.yj_containers # <<>>)
    => /\ fragments = decode_book(FreshBook, disk.walk, 0).b.fragments
       /\ NoDuplicates(ContainerNames)

\* C24: decode_book returns at once ("already decoded") only when a
\* decode_book has returned before on the instance; otherwise a decode_book
\* or convert_to_* that returns has located the files, deserialized every
\* located one, merged and run the consistency check (before it serialized).
C24_ShortCircuitOnlyAfterDecode ==
    (last_op \in DecodeOps /\ ~prev.decode_returned)
    => /\ Did("locate")
       /\ last_exc = ""
            => /\ \A i \in DOMAIN container_datafiles :
                     DidOn("deserialize", container_datafiles[i])
               /\ Did("merge")
               /\ Did("check_consistency")

----------------------------------------------------------------------------
(* Classification against the zip-wrapped codec (checked under Spec).      *)

\* C25: an archive get_container classifies as zip-wrapped holds the entry
\* ZipUnpackContainer.deserialize looks for: the deserialize that follows
\* the classification at the call site never fails with "book.ion file
\* missing", whatever directory the marker entry is in.
C25_ClassifiedZipDeserializes ==
    \A n \in Names :
        (/\ DidOn("deserialize", n)
         /\ get_container(FileOf(n), last_op = "get_metadata").tag = "ZipUnpackContainer")
        => deserialize("ZipUnpackContainer", n, 0).exc # "BookIonMissing"

----------------------------------------------------------------------------
(* Deregistration of the logger (checked under SpecLog).                   *)

\* C26: once a thread has called set_logger() with no argument, its current
\* logger is the default one (the logging module) as if it had never
\* registered one, and a call through the log proxy on that thread succeeds.
C26_DeregistrationRestoresDefault ==
    /\ (lg_obs.op = "set_logger" /\ lg_obs.result = "None")
        => get_current_logger(lg_attr[lg_obs.t]) = DefaultLogger
    /\ (lg_obs.op = "log" /\ lg_registered[lg_obs.t] = "none")
        => lg_obs.result = DefaultLogger

----------------------------------------------------------------------------
(* SpecData: a DataFile, the get_data calls on it and its comparisons      *)
(* (kfxlib/utilities.py).                                                  *)
(*                                                                         *)
(* A DataFile is built on a path (kind "path": self.stream and self.data   *)
(* are None), on a stream (kind "stream") or on bytes handed over with     *)
(* the name (kind "data", as check_located_file and relative_datafile do   *)
(* for the members of an archive).  Names are ordered as the integers.     *)

MaxGets == 3

Bytes == {"", "b1", "b2"}

DataKinds == {"path", "stream", "data"}

\* file_read_binary raises when the file does not exist, before it opens it
file_read_binary(store) == IF store = "missing" THEN "Exception" ELSE store

Got(df, ret, read) == [df |-> df, ret |-> ret, read |-> read]

\* Faulty variant of get_data: the source is read at every call.
get_data_NoCache(df, store) ==
    IF df.kind = "data" THEN Got(df, df.data, FALSE)
    ELSE IF file_read_binary(store) = "Exception" THEN Got(df, "Exception", FALSE)
    ELSE Got([df EXCEPT !.data = store], store, TRUE)

\* DataFile.get_data: self.data is filled from the stream or the file when
\* it is None, and returned
get_data(df, store) ==
    IF df.data = "None"
    THEN IF df.kind = "stream"
         THEN Got([df EXCEPT !.data = store], store, TRUE)
         ELSE IF file_read_binary(store) = "Exception"
              THEN Got(df, "Exception", FALSE)
              ELSE Got([df EXCEPT !.data = file_read_binary(store)],
                       file_read_binary(store), TRUE)
    ELSE Got(df, df.data, FALSE)

DataFile_eq(a, b) == a.name = b.name

DataFile_lt(a, b) == a.name < b.name

\* what functools.total_ordering derives from __lt__ and __eq__
DataFile_le(a, b) == DataFile_lt(a, b) \/ DataFile_eq(a, b)

DataFile_gt(a, b) == ~DataFile_lt(a, b) /\ ~DataFile_eq(a, b)

DataFile_ge(a, b) == ~DataFile_lt(a, b)

\* a DataFile as its constructor leaves it
NewDataFiles ==
    { DataFile(n, k, d, par) :
        n \in Names, k \in DataKinds, d \in Bytes \cup {"None"},
        par \in {"None", "archive"} } \ 
    { f \in [name : Names, kind : DataKinds, data : Bytes \cup {"None"},
             parent : {"None", "archive"}] :
        \/ f.kind = "data" /\ f.data = "None"
        \/ f.kind = "path" /\ f.data # "None" }

\* what the source of a DataFile of kind k can hold
Stores(k) ==
    CASE k = "path" -> Bytes \cup {"missing"}
      [] k = "stream" -> Bytes
      [] OTHER -> {"missing"}

InitData ==
    /\ CoreIdle
    /\ SerIdle
    /\ ProcIdle
    /\ RetryIdle
    /\ ConsoleIdle
    /\ df_file \in { f \in NewDataFiles : f.data = "None" \/ f.kind = "data" }
    /\ df_store \in Stores(df_file.kind)
    /\ df_other \in { f \in NewDataFiles : f.kind = "data" }
    /\ df_reads = 0
    /\ df_rets = <<>>
    /\ df_cmp = NoCompare

GetData ==
    /\ Len(df_rets) < MaxGets
    /\ LET r == get_data(df_file, df_store)
       IN  /\ df_file' = r.df
           /\ df_rets' = Append(df_rets, r.ret)
           /\ df_reads' = IF r.read THEN df_reads + 1 ELSE df_reads
    /\ UNCHANGED <<df_store, df_other, df_cmp, notDataVars>>

\* the file is written, replaced or removed by somebody else; a stream is
\* written to
StoreChanges ==
    /\ df_file.kind # "data"
    /\ \E st \in Stores(df_file.kind) :
          /\ st # df_store
          /\ df_store' = st
    /\ UNCHANGED <<df_file, df_other, df_reads, df_rets, df_cmp, notDataVars>>

Compare ==
    /\ df_cmp' = [done |-> TRUE,
                  eq |-> DataFile_eq(df_file, df_other),
                  lt |-> DataFile_lt(df_file, df_other),
                  le |-> DataFile_le(df_file, df_other),
                  gt |-> DataFile_gt(df_file, df_other),
                  ge |-> DataFile_ge(df_file, df_other)]
    /\ UNCHANGED <<df_file, df_store, df_other, df_reads, df_rets, notDataVars>>

NextData == GetData \/ StoreChanges \/ Compare

SpecData == InitData /\ [][NextData]_vars

\* the get_data calls that returned bytes
Returned == SelectSeq(df_rets, LAMBDA r : r # "Exception")

\* C21: a DataFile on a file or a stream does not read it before the first
\* get_data, reads it once in all however many get_data calls follow, and
\* every get_data returns the same bytes; two DataFiles compare (==, <, <=,
\* >, >=) by their names alone, whatever their data, stream and parent.
C21_DeferredCachedByName ==
    /\ df_rets = <<>> => df_reads = 0 /\ (df_file.kind # "data" => df_file.data = "None")
    /\ (df_file.kind \in {"path", "stream"} /\ Returned # <<>>) => df_reads = 1
    /\ \A i, j \in DOMAIN Returned : Returned[i] = Returned[j]
    /\ df_cmp.done
        => /\ df_cmp.eq = (df_file.name = df_other.name)
           /\ df_cmp.lt = (df_file.name < df_other.name)
           /\ df_cmp.le = (df_file.name <= df_other.name)
           /\ df_cmp.gt = (df_file.name > df_other.name)
           /\ df_cmp.ge = (df_file.name >= df_other.name)

\* three get_data calls on a file that changed after the first, and a
\* comparison with a DataFile of the same name and other data and parent
C21_Witness ==
    /\ df_file.kind = "path"
    /\ Len(Returned) = 3
    /\ df_store # Returned[1]
    /\ df_reads = 1
    /\ df_cmp.done /\ df_cmp.eq = TRUE
    /\ df_other.data # df_file.data /\ df_other.parent # df_file.parent

----------------------------------------------------------------------------
(* SpecSer: the binary primitive codec (kfxlib/utilities.py): a Serializer *)
(* on which pack, append, extend and repack are called, then a             *)
(* Deserializer over serialize() that reads back what was written.         *)
(*                                                                         *)
(* A buffer is a sequence of bytes (0..255).  The values of a pack call    *)
(* are a tuple; the bytes value b"" of the format "<0s" is EmptyBytes.     *)

MaxOps == 3

EmptyBytes == 0 - 1

Formats == {"<B", "<H", ">H", "<BB", "<0s"}

struct_calcsize(fmt) ==
    CASE fmt = "<B" -> 1
      [] fmt = "<H" -> 2
      [] fmt = ">H" -> 2
      [] fmt = "<BB" -> 2
      [] fmt = "<0s" -> 0

struct_pack(fmt, values) ==
    CASE fmt = "<B" -> <<values[1]>>
      [] fmt = "<H" -> <<values[1] % 256, values[1] \div 256>>
      [] fmt = ">H" -> <<values[1] \div 256, values[1] % 256>>
      [] fmt = "<BB" -> <<values[1], values[2]>>
      [] fmt = "<0s" -> <<>>

\* the tuple struct.unpack_from gives for the bytes at offset (counted
\* from 0)
struct_unpack_from(fmt, buffer, offset) ==
    CASE fmt = "<B" -> <<buffer[offset + 1]>>
      [] fmt = "<H" -> <<buffer[offset + 1] + 256 * buffer[offset + 2]>>
      [] fmt = ">H" -> <<256 * buffer[offset + 1] + buffer[offset + 2]>>
      [] fmt = "<BB" -> <<buffer[offset + 1], buffer[offset + 2]>>
      [] fmt = "<0s" -> <<EmptyBytes>>

\* the values a pack or repack call of the model passes with a format
PackValues(fmt) ==
    CASE fmt = "<B" -> {<<1>>, <<2>>}
      [] fmt = "<H" -> {<<258>>, <<3>>}
      [] fmt = ">H" -> {<<258>>, <<3>>}
      [] fmt = "<BB" -> {<<1, 2>>, <<2, 1>>}
      [] fmt = "<0s" -> {<<EmptyBytes>>}

\* the buffers an append call of the model passes
RawBuffers == {<<>>, <<7>>, <<8, 9>>}

\* what one write put in: its format ("raw" for append) and its values
\* (the bytes, for append)
Written(fmt, values) == [fmt |-> fmt, values |-> values]

Serializer(buffers, length, written) ==
    [buffers |-> buffers, length |-> length, written |-> written]

\* Serializer.append: an empty buffer is not kept
Serializer_append(s, buf) ==
    IF buf # <<>>
    THEN [s EXCEPT !.buffers = Append(@, buf), !.length = @ + Len(buf)]
    ELSE s

\* Serializer.pack: fmt_pos is taken before the append
fmt_pos(s, fmt) == [fmt |-> fmt, position |-> Len(s.buffers)]

Serializer_pack(s, fmt, values) == Serializer_append(s, struct_pack(fmt, values))

\* Serializer.repack: self.buffers[position] = struct.pack(fmt, *values);
\* positions count from 0, an index past the end raises IndexError
Serializer_repack(s, fp, values) ==
    IF fp.position >= Len(s.buffers) THEN [s |-> s, exc |-> "IndexError"]
    ELSE [s   |-> [s EXCEPT !.buffers[fp.position + 1] = struct_pack(fp.fmt, values)],
          exc |-> ""]

Serializer_extend(s, other) ==
    [s EXCEPT !.buffers = @ \o other.buffers, !.length = @ + other.length]

RECURSIVE Join(_)
Join(buffers) ==
    IF buffers = <<>> THEN <<>> ELSE Head(buffers) \o Join(Tail(buffers))

Serializer_serialize(s) == Join(s.buffers)

\* Deserializer.unpack(fmt): the first value of the tuple; struct.error when
\* the buffer is too short
Deserializer_unpack(buffer, offset, fmt) ==
    IF offset + struct_calcsize(fmt) > Len(buffer)
    THEN [result |-> <<>>, offset |-> offset, exc |-> "struct.error"]
    ELSE [result |-> <<struct_unpack_from(fmt, buffer, offset)[1]>>,
          offset |-> offset + struct_calcsize(fmt), exc |-> ""]

\* Deserializer.extract(size)
Deserializer_extract(buffer, offset, size) ==
    LET last == IF offset + size > Len(buffer) THEN Len(buffer) ELSE offset + size
        data == SubSeq(buffer, offset + 1, last)
    IN  IF Len(data) < size \/ size < 0
        THEN [result |-> <<>>, offset |-> offset, exc |-> "Insufficient data"]
        ELSE [result |-> data, offset |-> offset + size, exc |-> ""]

\* a reader that unpacks / extracts with the formats and sizes of the
\* writes, in their order
RECURSIVE ReadBack(_, _, _)
ReadBack(written, buffer, rd) ==
    IF written = <<>> \/ rd.exc # "" THEN rd
    ELSE LET w == Head(written)
             r == IF w.fmt = "raw"
                  THEN Deserializer_extract(buffer, rd.offset, Len(w.values))
                  ELSE Deserializer_unpack(buffer, rd.offset, w.fmt)
         IN  ReadBack(Tail(written), buffer,
                      Read(IF r.exc = "" THEN Append(rd.out, r.result) ELSE rd.out,
                           r.offset, r.exc))

\* the serializers an extend call of the model is handed
OtherSerializers ==
    { Serializer(<<>>, 0, <<>>),
      Serializer_pack(Serializer(<<>>, 0, <<Written("<H", <<258>>)>>), "<H", <<258>>),
      Serializer_append(Serializer(<<>>, 0, <<Written("raw", <<8, 9>>)>>), <<8, 9>>) }

InitSer ==
    /\ CoreIdle
    /\ DataIdle
    /\ SerIdle
    /\ ProcIdle
    /\ RetryIdle
    /\ ConsoleIdle

SerSelf == Serializer(sr_buffers, sr_length, sr_written)

SerCalled(s, exc) ==
    /\ sr_read = NotRead
    /\ sr_ops < MaxOps
    /\ sr_ops' = sr_ops + 1
    /\ sr_buffers' = s.buffers
    /\ sr_length' = s.length
    /\ sr_written' = s.written
    /\ sr_exc' = exc
    /\ sr_read' = sr_read
    /\ UNCHANGED notSerVars

Pack ==
    \E fmt \in Formats : \E values \in PackValues(fmt) :
        /\ SerCalled([Serializer_pack(SerSelf, fmt, values) EXCEPT
                        !.written = Append(@, Written(fmt, values))], "")
        /\ sr_handles' = Append(sr_handles,
                                [fp |-> fmt_pos(SerSelf, fmt), item |-> Len(sr_written) + 1])

AppendBuffer ==
    \E buf \in RawBuffers :
        /\ SerCalled([Serializer_append(SerSelf, buf) EXCEPT
                        !.written = Append(@, Written("raw", buf))], "")
        /\ UNCHANGED sr_handles

Extend ==
    \E other \in OtherSerializers :
        /\ SerCalled([Serializer_extend(SerSelf, other) EXCEPT
                        !.written = @ \o other.written], "")
        /\ UNCHANGED sr_handles

\* repack with a fmt_pos an earlier pack returned: the value of that pack is
\* the one meant to be replaced
Repack ==
    \E h \in DOMAIN sr_handles : \E values \in PackValues(sr_handles[h].fp.fmt) :
        LET r == Serializer_repack(SerSelf, sr_handles[h].fp, values)
        IN  /\ SerCalled([r.s EXCEPT
                            !.written[sr_handles[h].item] =
                                Written(sr_handles[h].fp.fmt, values)], r.exc)
            /\ UNCHANGED sr_handles

Deserialize ==
    /\ sr_read = NotRead
    /\ sr_read' = ReadBack(sr_written, Serializer_serialize(SerSelf), Read(<<>>, 0, ""))
    /\ UNCHANGED <<sr_buffers, sr_length, sr_written, sr_handles, sr_ops, sr_exc>>
    /\ UNCHANGED notSerVars

NextSer == Pack \/ AppendBuffer \/ Extend \/ Repack \/ Deserialize

SpecSer == InitSer /\ [][NextSer]_vars

\* the bytes the writes stand for, one after the other
RECURSIVE BytesOf(_)
BytesOf(written) ==
    IF written = <<>> THEN <<>>
    ELSE (IF Head(written).fmt = "raw" THEN Head(written).values
          ELSE struct_pack(Head(written).fmt, Head(written).values))
         \o BytesOf(Tail(written))

\* C22: after any sequence of pack, append, extend and repack, len() of the
\* Serializer is the number of bytes serialize() gives; a repack replaces
\* the value of the pack whose fmt_pos it is given and nothing else (the
\* bytes are those of the writes, that one value replaced); and a
\* Deserializer over the bytes, reading with the formats and sizes of the
\* writes in their order, returns the values written and has no byte left.
C22_CodecRoundTrip ==
    /\ sr_length = Len(Serializer_serialize(SerSelf))
    /\ sr_exc = ""
    /\ Serializer_serialize(SerSelf) = BytesOf(sr_written)
    /\ sr_read # NotRead
        => /\ sr_read.exc = ""
           /\ sr_read.out = [i \in DOMAIN sr_written |-> sr_written[i].values]
           /\ Len(Serializer_serialize(SerSelf)) - sr_read.offset = 0

----------------------------------------------------------------------------
(* SpecProc: one ConversionProcess (kfxlib/generate_kpf_common.py): run(), *)
(* that is start() and wait_for_completion(), and then what                *)
(* perform_conversion_sequence_once (kfxlib/generate_kpf_using_cli.py)     *)
(* makes of its fields.                                                    *)
(*                                                                         *)
(* Time is counted in turns of the polling loop (one turn sleeps           *)
(* CONVERSION_SLEEP_SEC); timeout_sec is in the same unit, 0 when no       *)
(* timeout is set.  The process exits by itself with code rc when          *)
(* exit_at turns have passed, or not at all (Never).                       *)

MaxTicks == 4

TimeoutTicks == 2

\* SIGKILL, as subprocess reports it
KilledRc == 0 - 9

ReturnCodes == {0, 1, KilledRc}

Summaries ==
    {"missing", "no_rows", "supported", "kpf_missing", "unsupported",
     "unsupported_mobi", "failed"}

ConvLogs == {"clean", "error_row", "missing"}

\* a process that was not launched leaves no file in the new out_dir
ProcEnvs ==
    { e \in [launch : BOOLEAN, psutil : BOOLEAN, timeout_sec : {0, TimeoutTicks},
             exit_at : (0..MaxTicks) \cup {Never}, rc : ReturnCodes,
             summary : Summaries, convlog : ConvLogs] :
        /\ ~e.launch => e.exit_at = Never /\ e.rc = 0 /\ e.summary = "missing"
        /\ e.exit_at = Never => e.rc = 0
        /\ e.summary \in {"missing", "no_rows", "kpf_missing"} => e.convlog = "clean" }

\* ConversionProcess.error: self.error_msg = msg, and the message is written
\* to the output file
ConversionProcess_error(cli, msg) == [cli EXCEPT !.error_msg = msg]

\* ConversionProcess.start: the output file is opened and the process
\* launched; when Popen raises, the error is recorded, the file closed and
\* False returned
ConversionProcess_start(cli, env) ==
    IF env.launch
    THEN [cli |-> [cli EXCEPT !.out_file = "open", !.proc = "running"], ok |-> TRUE]
    ELSE [cli |-> [ConversionProcess_error([cli EXCEPT !.out_file = "open"],
                                           "Failed to launch conversion process")
                   EXCEPT !.out_file = "closed"],
          ok  |-> FALSE]

\* self.process.poll() is None
Polling(cli, env, t) ==
    /\ cli.proc = "running"
    /\ ~(env.exit_at # Never /\ env.exit_at <= t)

\* the body of the timeout test: the process (and, with psutil, its
\* children) is killed; parent.wait(5) names a variable that is assigned in
\* the psutil branch only
KillOnTimeout(cli, env) ==
    IF env.psutil
    THEN [cli EXCEPT !.timeout = TRUE, !.proc = "killed"]
    ELSE [cli EXCEPT !.timeout = TRUE, !.proc = "killed", !.exc = "UnboundLocalError"]

\* the polling loop of wait_for_completion, from its turn t on
RECURSIVE PollLoop(_, _, _)
PollLoop(cli, env, t) ==
    IF cli.exc # "" \/ ~Polling(cli, env, t) THEN cli
    ELSE IF t >= MaxTicks /\ env.timeout_sec = 0 THEN [cli EXCEPT !.waiting = TRUE]
    ELSE IF env.timeout_sec # 0 /\ t > env.timeout_sec
         THEN PollLoop(KillOnTimeout(cli, env), env, t + 1)
         ELSE PollLoop(cli, env, t + 1)

\* self.process.returncode once poll() gave it
ProcessReturncode(cli, env) == IF cli.proc = "killed" THEN KilledRc ELSE env.rc

\* rc & 0xffffffff, as its two 16-bit halves
Mask32(rc) == <<(rc \div 65536) % 65536, rc % 65536>>

\* wait_for_completion after the loop; the returncode is None (<<>>), the
\* plain -1 of the timeout, or a masked value
Completion(cli, env) ==
    LET rc == Mask32(ProcessReturncode(cli, env))
        c1 == IF cli.timeout
              THEN [ConversionProcess_error(cli, "did not complete within timeout_sec seconds")
                    EXCEPT !.returncode = <<0 - 1>>, !.process_failure = "True"]
              ELSE IF rc # Mask32(0)
              THEN [ConversionProcess_error(cli, "return code")
                    EXCEPT !.returncode = rc, !.process_failure = "True"]
              ELSE [cli EXCEPT !.returncode = rc, !.process_failure = "False"]
    IN  [c1 EXCEPT !.out_file = "closed",
                   !.proc = IF cli.proc = "running" THEN "exited" ELSE cli.proc]

wait_for_completion(cli, env) ==
    LET c == PollLoop(cli, env, 0)
    IN  IF c.exc # "" \/ c.waiting THEN c ELSE Completion(c, env)

\* ConversionProcess.run
ConversionProcess_run(cli, env) ==
    LET s == ConversionProcess_start(cli, env)
    IN  IF s.ok THEN wait_for_completion(s.cli, env) ELSE s.cli

\* `not cli.process_failure`
Not(v) == v # "True"

\* the first row of Summary_Log.csv
SummaryRow(l, summary) ==
    CASE summary = "supported" -> [l EXCEPT !.kpf_data = "kpf"]
      [] summary = "kpf_missing" -> [l EXCEPT !.error_msg = "KPF file is missing"]
      [] summary = "unsupported" ->
            [l EXCEPT !.error_msg = "Enhanced Typesetting not supported"]
      [] summary = "unsupported_mobi" ->
            [l EXCEPT !.error_msg = "Enhanced Typesetting not supported",
                      !.allow_retry = FALSE]
      [] summary = "failed" -> [l EXCEPT !.error_msg = "Conversion failed"]
      [] summary = "no_rows" ->
            [l EXCEPT !.error_msg = "Failed to locate results", !.allow_retry = FALSE]

\* the conversion log the row names
ConversionLog(l, convlog) ==
    CASE convlog = "error_row" ->
            [l EXCEPT !.error_msg = "description", !.allow_retry = FALSE]
      [] convlog = "missing" ->
            [l EXCEPT !.error_msg = "Log file is missing", !.allow_retry = FALSE]
      [] OTHER -> l

\* perform_conversion_sequence_once from `error_msg = cli.error_msg` to its
\* return statement: error_msg, allow_retry and kpf_data there
OnceLocals(cli, env) ==
    LET l0 == Locals("None", cli.error_msg, Not(cli.process_failure))
        l1 == IF env.summary # "missing" THEN SummaryRow(l0, env.summary)
              ELSE IF l0.error_msg = "None"
              THEN [l0 EXCEPT !.error_msg = "Summary_Log.csv is missing",
                              !.allow_retry = FALSE]
              ELSE l0
    IN  IF env.summary \in {"supported", "unsupported", "unsupported_mobi", "failed"}
        THEN ConversionLog(l1, env.convlog)
        ELSE l1

InitProc ==
    /\ CoreIdle
    /\ DataIdle
    /\ SerIdle
    /\ RetryIdle
    /\ ConsoleIdle
    /\ pr_env \in ProcEnvs
    /\ pr_phase = "created"
    /\ pr_cli = NewProcess
    /\ pr_once = Locals("None", "None", FALSE)

\* cli.run(...)
Run ==
    /\ pr_phase = "created"
    /\ pr_cli' = ConversionProcess_run(pr_cli, pr_env)
    /\ pr_phase' = "ran"
    /\ UNCHANGED <<pr_env, pr_once, notProcVars>>

\* the statements of perform_conversion_sequence_once that follow a run()
\* that returned
AfterRun ==
    /\ pr_phase = "ran"
    /\ pr_cli.exc = "" /\ ~pr_cli.waiting
    /\ pr_once' = OnceLocals(pr_cli, pr_env)
    /\ pr_phase' = "read"
    /\ UNCHANGED <<pr_env, pr_cli, notProcVars>>

NextProc == Run \/ AfterRun

SpecProc == InitProc /\ [][NextProc]_vars

\* the process was launched and had not exited when the timeout had passed
TimedOut ==
    /\ pr_env.launch
    /\ pr_env.timeout_sec # 0
    /\ pr_env.exit_at = Never \/ pr_env.exit_at > pr_env.timeout_sec + 1

\* the external process of the attempt failed
ProcessFailed ==
    \/ ~pr_env.launch
    \/ pr_cli.timeout
    \/ pr_cli.returncode # <<>> /\ pr_cli.returncode # Mask32(0)

\* C28: an attempt whose process could not be launched, did not complete
\* within the timeout or exited with a non-zero return code has
\* allow_retry = false at the return of perform_conversion_sequence_once.
C28_FailedProcessNotRetried ==
    (pr_phase = "read" /\ ProcessFailed) => ~pr_once.allow_retry

\* C29: when timeout_sec is set and the process has not completed within
\* it, wait_for_completion kills the process, with psutil and without,
\* returns, and leaves process_failure = true, returncode = -1, the "did not
\* complete" message and the output file closed.
C29_TimeoutKillsAndReports ==
    (pr_phase # "created" /\ TimedOut)
    => /\ pr_cli.proc = "killed"
       /\ pr_cli.exc = ""
       /\ pr_cli.process_failure = "True"
       /\ pr_cli.returncode = <<0 - 1>>
       /\ pr_cli.error_msg = "did not complete within timeout_sec seconds"
       /\ pr_cli.out_file = "closed"

----------------------------------------------------------------------------
(* SpecRetry: KPR_CLI.perform_conversion_sequence and the attempts it      *)
(* makes (kfxlib/generate_kpf_using_cli.py).                               *)

MAX_CONVERSION_RETRIES == 5

\* attempts the model describes: one more than the loop can make
NumAttempts == MAX_CONVERSION_RETRIES + 2

\* what an attempt can meet: a conversion that gives a KPF; one that fails
\* with nothing that forbids a retry; a process that exits with a non-zero
\* code; a process that cannot be launched
AttemptEnvs ==
    { ProcEnv(TRUE, TRUE, 0, 1, 0, "supported", "clean"),
      ProcEnv(TRUE, TRUE, 0, 1, 0, "failed", "clean"),
      ProcEnv(TRUE, TRUE, 0, 1, 1, "failed", "clean"),
      ProcEnv(FALSE, TRUE, 0, Never, 0, "missing", "clean") }

\* the parameters of ConversionProcess.__init__ besides self, and the
\* arguments of KPR_CLI_Process(self, log_output=True), which has no
\* __init__ of its own
ConversionProcess_init_params == {"sequence"}

KPR_CLI_Process_args == {"sequence", "log_output"}

\* the parameters of ConversionResult.__init__ besides self, and the keyword
\* arguments of the return statement of perform_conversion_sequence_once
ConversionResult_init_params ==
    {"kpf_data", "error_msg", "logs", "guidance", "cleaned_epub_data"}

ConversionResult_args == {"kpf_data", "error_msg", "log_data", "guidance_msgs"}

Once(result, allow_retry, raised) ==
    [result |-> result, allow_retry |-> allow_retry, raised |-> raised]

\* what the statements of perform_conversion_sequence_once compute from the
\* process the attempt runs
AttemptLocals(env) == OnceLocals(ConversionProcess_run(NewProcess, env), env)

perform_conversion_sequence_once(env) ==
    IF ~(KPR_CLI_Process_args \subseteq ConversionProcess_init_params)
    THEN Once(NoResult, FALSE, "TypeError")
    ELSE IF ConversionProcess_run(NewProcess, env).exc # ""
    THEN Once(NoResult, FALSE, ConversionProcess_run(NewProcess, env).exc)
    ELSE IF ~(ConversionResult_args \subseteq ConversionResult_init_params)
    THEN Once(NoResult, FALSE, "TypeError")
    ELSE Once(AttemptLocals(env), AttemptLocals(env).allow_retry, "")

Sequence(made, result, raised) == [made |-> made, result |-> result, raised |-> raised]

\* the while loop; `last` is what the latest attempt gave
RECURSIVE RetryLoop(_, _, _)
RetryLoop(envs, retry_count, last) ==
    IF last.raised # "" THEN Sequence(retry_count + 1, NoResult, last.raised)
    ELSE IF last.result.kpf_data = "None" /\ retry_count < MAX_CONVERSION_RETRIES
            /\ last.allow_retry
    THEN RetryLoop(envs, retry_count + 1,
                   perform_conversion_sequence_once(envs[retry_count + 2]))
    ELSE Sequence(retry_count + 1, last.result, "")

perform_conversion_sequence(envs) ==
    RetryLoop(envs, 0, perform_conversion_sequence_once(envs[1]))

InitRetry ==
    /\ CoreIdle
    /\ DataIdle
    /\ SerIdle
    /\ ProcIdle
    /\ ConsoleIdle
    /\ rt_envs \in [1..NumAttempts -> AttemptEnvs]
    /\ rt_phase = "called"
    /\ rt_made = 0
    /\ rt_result = NoResult
    /\ rt_raised = ""

PerformConversionSequence ==
    /\ rt_phase = "called"
    /\ LET r == perform_conversion_sequence(rt_envs)
       IN  /\ rt_made' = r.made
           /\ rt_result' = r.result
           /\ rt_raised' = r.raised
    /\ rt_phase' = "done"
    /\ UNCHANGED <<rt_envs, notRetryVars>>

NextRetry == PerformConversionSequence

SpecRetry == InitRetry /\ [][NextRetry]_vars

\* C27: perform_conversion_sequence ends after at most
\* 1 + MAX_CONVERSION_RETRIES attempts; an attempt is followed by another
\* only when it gave no KPF data and was marked retryable; the attempts end
\* at the first that gives KPF data; and the result returned is that of the
\* last attempt made.
C27_BoundedRetry ==
    rt_phase = "done"
    => /\ rt_made <= 1 + MAX_CONVERSION_RETRIES
       /\ \A i \in 1..(rt_made - 1) :
             /\ AttemptLocals(rt_envs[i]).kpf_data = "None"
             /\ AttemptLocals(rt_envs[i]).allow_retry
       /\ rt_raised = ""
       /\ rt_result = AttemptLocals(rt_envs[rt_made])

----------------------------------------------------------------------------
(* SpecConsole: a WindowsConsole and the calls on it                       *)
(* (kfxlib/windows_console.py).                                            *)
(*                                                                         *)
(* A handle is "original", "alternate", "invalid" (INVALID_HANDLE_VALUE)   *)
(* or "None".  SetConsoleActiveScreenBuffer succeeds on the handle of a    *)
(* buffer that exists and fails on any other.                              *)

MaxConsoleCalls == 4

MaxCursor == 2

\* what the constructor meets: AllocConsole succeeds; the process has a
\* console already (AllocConsole fails then); CreateConsoleScreenBuffer,
\* GetConsoleScreenBufferInfo (first and second call) and
\* SetConsoleScreenBufferSize succeed; the buffer is smaller than MIN_COLS x
\* MIN_ROWS
ConsoleEnvs ==
    { e \in [alloc : BOOLEAN, attached : BOOLEAN, csb : BOOLEAN, info1 : BOOLEAN,
             small : BOOLEAN, resize : BOOLEAN, info2 : BOOLEAN] :
        /\ ~(e.alloc /\ e.attached)
        /\ ~(e.alloc \/ e.attached) => ~e.csb
        /\ ~e.csb => e.info1 /\ e.small /\ e.resize /\ e.info2
        /\ ~e.info1 => e.small /\ e.resize /\ e.info2
        /\ ~e.small => e.resize /\ e.info2
        /\ ~e.resize => e.info2 }

\* CreateFile returns its handle wrapped in ctypes.wintypes.HANDLE(...), and
\* `==` between that object and the integer INVALID_HANDLE_VALUE is False
WrappedHandleEquals(handle, value) == FALSE

\* WindowsConsole.__init__
WindowsConsole_init(e) ==
    LET original == IF e.alloc \/ e.attached THEN "original" ELSE "invalid"
    IN  IF WrappedHandleEquals(original, "invalid")
        THEN Console(original, "None", "None", CsbiUnset, e.alloc)
        ELSE IF ~e.csb
        THEN Console(original, original, "None", CsbiUnset, e.alloc)
        ELSE IF ~e.info1
        THEN Console(original, original, "alternate", CsbiNone, e.alloc)
        ELSE IF e.small /\ ~e.resize
        THEN Console(original, original, "alternate", 0, e.alloc)
        ELSE IF e.small /\ ~e.info2
        THEN Console(original, original, "alternate", CsbiNone, e.alloc)
        ELSE Console(original, original, "alternate", 0, e.alloc)

ConsoleState(self, os, closed, freed, exc) ==
    [self |-> self, os |-> os, closed |-> closed, freed |-> freed, exc |-> exc]

SetConsoleActiveScreenBuffer(os, handle) ==
    IF handle = "original" \/ (handle = "alternate" /\ os.alt_open)
    THEN [os EXCEPT !.active = handle]
    ELSE os

use_alternate_console_buffer(st) ==
    IF st.self.alternate_console_output_handle # "None"
       /\ st.self.current_console_output_handle # st.self.alternate_console_output_handle
    THEN [st EXCEPT
            !.os = SetConsoleActiveScreenBuffer(@, st.self.alternate_console_output_handle),
            !.self.current_console_output_handle = st.self.alternate_console_output_handle]
    ELSE st

restore_original_console_buffer(st) ==
    IF st.self.current_console_output_handle # "None"
       /\ st.self.current_console_output_handle # st.self.original_console_output_handle
    THEN [st EXCEPT
            !.os = SetConsoleActiveScreenBuffer(@, st.self.original_console_output_handle),
            !.self.current_console_output_handle = st.self.original_console_output_handle]
    ELSE st

\* info_ok: GetConsoleScreenBufferInfo succeeds
restore_original_console_buffer_on_change(st, info_ok) ==
    IF st.self.alternate_console_output_handle = "None" THEN st
    ELSE IF st.self.csbi = CsbiUnset THEN [st EXCEPT !.exc = "AttributeError"]
    ELSE IF st.self.csbi # CsbiNone
            /\ st.self.current_console_output_handle = st.self.alternate_console_output_handle
    THEN IF ~info_ok THEN [st EXCEPT !.self.csbi = CsbiNone]
         ELSE IF st.os.cursor # st.self.csbi
         THEN restore_original_console_buffer([st EXCEPT !.self.csbi = st.os.cursor])
         ELSE [st EXCEPT !.self.csbi = st.os.cursor]
    ELSE st

\* Faulty variant of free_alternate_console_buffer: the handle and the flag
\* are not reset.
free_alternate_console_buffer_NoReset(st) ==
    LET r  == restore_original_console_buffer(st)
        c  == IF r.self.alternate_console_output_handle # "None"
              THEN [r EXCEPT !.closed = @ + 1, !.os.alt_open = FALSE]
              ELSE r
    IN  IF c.self.allocated_console THEN [c EXCEPT !.freed = @ + 1] ELSE c

free_alternate_console_buffer(st) ==
    LET r  == restore_original_console_buffer(st)
        c  == IF r.self.alternate_console_output_handle # "None"
              THEN [r EXCEPT !.closed = @ + 1, !.os.alt_open = FALSE,
                             !.self.alternate_console_output_handle = "None"]
              ELSE r
    IN  IF c.self.allocated_console
        THEN [c EXCEPT !.freed = @ + 1, !.self.allocated_console = FALSE]
        ELSE c

InitConsole ==
    /\ CoreIdle
    /\ DataIdle
    /\ SerIdle
    /\ ProcIdle
    /\ RetryIdle
    /\ \E e \in ConsoleEnvs :
          /\ wc_self = WindowsConsole_init(e)
          /\ wc_os = ConsoleOs("original", e.csb, 0)
    /\ wc_closed = 0
    /\ wc_freed = 0
    /\ wc_calls = 0
    /\ wc_at_free = NotFreed

ConsoleSelf == ConsoleState(wc_self, wc_os, wc_closed, wc_freed, "")

ConsoleCalled(st) ==
    /\ wc_calls < MaxConsoleCalls
    /\ wc_calls' = wc_calls + 1
    /\ wc_self' = st.self
    /\ wc_os' = st.os
    /\ wc_closed' = st.closed
    /\ wc_freed' = st.freed
    /\ UNCHANGED notConsoleVars

UseAlternateConsoleBuffer ==
    /\ ConsoleCalled(use_alternate_console_buffer(ConsoleSelf))
    /\ UNCHANGED wc_at_free

RestoreOriginalConsoleBuffer ==
    /\ ConsoleCalled(restore_original_console_buffer(ConsoleSelf))
    /\ UNCHANGED wc_at_free

RestoreOriginalConsoleBufferOnChange ==
    /\ \E info_ok \in BOOLEAN :
          ConsoleCalled(restore_original_console_buffer_on_change(ConsoleSelf, info_ok))
    /\ UNCHANGED wc_at_free

\* free_alternate_console_buffer, called by the owner or by __del__
FreeAlternateConsoleBuffer ==
    LET st == free_alternate_console_buffer(ConsoleSelf)
    IN  /\ ConsoleCalled(st)
        /\ wc_at_free' =
              IF wc_at_free.freed THEN wc_at_free
              ELSE [freed |-> TRUE, self |-> st.self, os |-> st.os,
                    closed |-> st.closed, cfreed |-> st.freed]

\* the converter writes to the active buffer: the cursor of the alternate
\* buffer moves
ConsoleOutput ==
    /\ wc_os.alt_open /\ wc_os.active = "alternate"
    /\ wc_os.cursor < MaxCursor
    /\ wc_os' = [wc_os EXCEPT !.cursor = @ + 1]
    /\ UNCHANGED <<wc_self, wc_closed, wc_freed, wc_calls, wc_at_free, notConsoleVars>>

NextConsole ==
    \/ UseAlternateConsoleBuffer
    \/ RestoreOriginalConsoleBuffer
    \/ RestoreOriginalConsoleBufferOnChange
    \/ FreeAlternateConsoleBuffer
    \/ ConsoleOutput

SpecConsole == InitConsole /\ [][NextConsole]_vars

====
